---------------------------- MODULE Spec2Model ----------------------------
(***************************************************************************)
(* The per-connection request lifecycle engine of the embedded web server  *)
(* (src/web/server/web_client.c): one client, its receive buffer, the      *)
(* request validator, the router, the response head, the plain and the     *)
(* chunked-gzip send paths and the file-copy read path, driven by a        *)
(* readiness driver that calls the engine when a wait flag is armed.       *)
(*                                                                         *)
(* Buffers are strings.  Positions are 1-based: the C offset i is the      *)
(* position i+1, and the position Len(s)+1 is the terminating NUL.         *)
(***************************************************************************)
EXTENDS Integers, Sequences, FiniteSets, TLC

VARIABLES
    w,        \* struct web_client
    conf,     \* process-wide configuration and the connection's transport/ACL
    net,      \* request bytes in flight towards the client socket
    world,    \* what the collaborators answer: the API handlers, open(), the host lookup
    wire,     \* the bytes written to the socket for the current response: head and body
    now,      \* monotonic clock
    hist,     \* observations of the run (what was written when)
    mt        \* the function statics the worker threads share, and the threads

vars == <<w, conf, world, net, wire, now, hist, mt>>

-----------------------------------------------------------------------------
(* Bounds of the model *)

\* NETDATA_WEB_RESPONSE_ZLIB_CHUNK_SIZE, scaled down (the size of zbuffer).
ZCHUNK == 3

\* HTTP_REQ_MAX_HEADER_FETCH_TRIES, scaled down.
MAX_TRIES == 3

\* NETDATA_WEB_REQUEST_MAX_SIZE, scaled down.
MAX_REQUEST == 80

\* The clock stops advancing here.
MaxTime == 2

\* The modulus of size_t, scaled down.
SIZE_WRAP == 1000000

\* The most bytes the socket takes of a head, and of a body, in one call.
HeadRoom == 4096
BodyRoom == 32

\* How many short writes of chunk framing one connection sees.
MaxShorts == 1

-----------------------------------------------------------------------------
(* C string helpers *)

Min(a, b) == IF a < b THEN a ELSE b

\* s[i], "" for the NUL at the end
Ch(s, i) == IF i >= 1 /\ i <= Len(s) THEN SubSeq(s, i, i) ELSE ""

\* the C string that starts at position i
From(s, i) == SubSeq(s, i, Len(s))

\* strncmp(s + (i-1), p, strlen(p)) == 0
StartsAt(s, i, p) == i >= 1 /\ i + Len(p) - 1 <= Len(s) /\ SubSeq(s, i, i + Len(p) - 1) = p

\* the least element of a set of positions, `none` when it is empty
FirstOf(hits, none) == IF hits = {} THEN none ELSE CHOOSE k \in hits : \A j \in hits : k <= j

\* the greatest element of a set of positions, `none` when it is empty
LastOf(hits, none) == IF hits = {} THEN none ELSE CHOOSE k \in hits : \A j \in hits : j <= k

\* strstr(s + (i-1), p): the first position >= i where p starts, 0 for NULL
StrStr(s, i, p) ==
    FirstOf({k \in (IF i < 1 THEN 1 ELSE i)..(Len(s) - Len(p) + 1) :
                SubSeq(s, k, k + Len(p) - 1) = p}, 0)

\* the first position >= i holding character ch, Len(s)+1 (the NUL) when none
ScanTo(s, i, ch) == FirstOf({k \in (IF i < 1 THEN 1 ELSE i)..Len(s) : SubSeq(s, k, k) = ch},
                           Len(s) + 1)

UpperCase == "ABCDEFGHIJKLMNOPQRSTUVWXYZ"
LowerCase == "abcdefghijklmnopqrstuvwxyz"

\* tolower() of one character
ToLower(ch) ==
    IF ch = "" \/ StrStr(UpperCase, 1, ch) = 0 THEN ch
    ELSE SubSeq(LowerCase, StrStr(UpperCase, 1, ch), StrStr(UpperCase, 1, ch))

RECURSIVE LowerStr(_)
LowerStr(s) == IF s = "" THEN "" ELSE ToLower(SubSeq(s, 1, 1)) \o LowerStr(Tail(s))

\* strcasecmp(a, b) == 0
StrCaseEq(a, b) == LowerStr(a) = LowerStr(b)

\* strcasestr(s, p) != NULL
StrCaseStr(s, p) == StrStr(LowerStr(s), 1, LowerStr(p)) # 0

Digits == "0123456789"
HexDigits == "0123456789ABCDEF"

\* the characters of header names and path segments, in code order
HashAlphabet == Digits \o UpperCase \o LowerCase \o "-._"

\* FNV1 hash of a string, on 16 bits: the offset basis, then for each byte
\* multiply by the prime and add the byte
RECURSIVE HashFrom(_, _)
HashFrom(h, s) ==
    IF s = "" THEN h
    ELSE HashFrom(((h * 403) + StrStr(HashAlphabet, 1, SubSeq(s, 1, 1))) % 65536, Tail(s))

simple_hash(s) == HashFrom(33589, s)

\* the same hash of the upper-cased string
simple_uhash(s) == HashFrom(33589, LowerStr(s))

IsDigit(ch) == ch # "" /\ StrStr(Digits, 1, ch) # 0

RECURSIVE DecStr(_)
\* printf("%zu", n)
DecStr(n) == IF n < 10 THEN SubSeq(Digits, n + 1, n + 1)
             ELSE DecStr(n \div 10) \o SubSeq(Digits, (n % 10) + 1, (n % 10) + 1)

RECURSIVE HexStr(_)
\* printf("%zX", n)
HexStr(n) == IF n < 16 THEN SubSeq(HexDigits, n + 1, n + 1)
             ELSE HexStr(n \div 16) \o SubSeq(HexDigits, (n % 16) + 1, (n % 16) + 1)

RECURSIVE ParseDec(_, _, _)
\* str2ul(s + (i-1)): the value of the decimal digits starting at position i
ParseDec(s, i, acc) ==
    IF IsDigit(Ch(s, i)) THEN ParseDec(s, i + 1, acc * 10 + (StrStr(Digits, 1, Ch(s, i)) - 1))
    ELSE acc

CRLF == "\r\n"
CRLFCRLF == "\r\n\r\n"


-----------------------------------------------------------------------------
(* The client *)

Modes == {"GET", "POST", "PUT", "DELETE", "OPTIONS", "STREAM", "FILECOPY"}

PathFlags == {"PATH_WITH_VERSION", "PATH_IS_V0", "PATH_IS_V1", "PATH_IS_V2",
              "PATH_HAS_FILE_EXTENSION", "PATH_HAS_TRAILING_SLASH"}

\* the socket of the connection, and the descriptor open() returns for a file
SOCK_FD == "socket"
FILE_FD == "file"

\* no descriptor (-1)
NO_FD == "none"

web_client_flag_check(c, f) == f \in c.flags
web_client_flag_set(c, f) == [c EXCEPT !.flags = @ \cup {f}]
web_client_flag_clear(c, f) == [c EXCEPT !.flags = @ \ {f}]

web_client_has_keepalive(c) == "KEEPALIVE" \in c.flags
web_client_has_wait_receive(c) == "WAIT_RECEIVE" \in c.flags
web_client_has_wait_send(c) == "WAIT_SEND" \in c.flags
web_client_check_dead(c) == "DEAD" \in c.flags

web_client_enable_wait_receive(c) == web_client_flag_set(c, "WAIT_RECEIVE")
web_client_disable_wait_receive(c) == web_client_flag_clear(c, "WAIT_RECEIVE")
web_client_enable_wait_send(c) == web_client_flag_set(c, "WAIT_SEND")
web_client_disable_wait_send(c) == web_client_flag_clear(c, "WAIT_SEND")
web_client_enable_keepalive(c) == web_client_flag_set(c, "KEEPALIVE")
web_client_disable_keepalive(c) == web_client_flag_clear(c, "KEEPALIVE")
WEB_CLIENT_IS_DEAD(c) == web_client_flag_set(c, "DEAD")

\* PATH_WITH_VERSION is the union of the three version bits
\* a version test that never finds one
web_client_has_no_path_version(c) == FALSE

web_client_has_path_version(c) == c.flags \cap {"PATH_IS_V0", "PATH_IS_V1", "PATH_IS_V2"} # {}
web_client_keep_path_flags(c) == c
web_client_reset_path_flags(c) == [c EXCEPT !.flags = @ \ PathFlags]

\* web_client_create(), then the driver's set-up of a new connection: both
\* descriptors are the socket and the client waits for a request.
web_client_create ==
    [ mode |-> "GET", flags |-> {"WAIT_RECEIVE"},
      ifd |-> SOCK_FD, ofd |-> SOCK_FD,
      url_as_received |-> "", url_path_decoded |-> "", url_query_string_decoded |-> "",
      post_payload |-> "", post_payload_size |-> 0,
      origin |-> "", user_agent |-> "", auth_bearer_token |-> "",
      server_host |-> "", forwarded_host |-> "",
      header_parse_tries |-> 0, header_parse_last_size |-> 0,
      response_data |-> "", response_content_type |-> "CT_TEXT_PLAIN",
      response_no_cacheable |-> FALSE,
      response_header |-> "", response_header_output |-> "",
      response_code |-> 0, response_rlen |-> 0, response_sent |-> 0,
      response_has_cookies |-> FALSE,
      zoutput |-> FALSE, zinitialized |-> FALSE, zhave |-> 0, zsent |-> 0,
      zbuffer |-> "",
      zstream_avail_in |-> 0, zstream_avail_out |-> 0,
      zstream_total_in |-> 0, zstream_total_out |-> 0,
      zlib_pending |-> 0, zlib_finished |-> FALSE, zlib_inits |-> 0,
      received_bytes |-> 0, sent_bytes |-> 0,
      tv_in |-> 0, tv_ready |-> 0, timeout_ut |-> 0,
      use_count |-> 1, memory_accounting |-> "statistics_memory_accounting",
      ssl |-> "NETDATA_SSL_UNSET_CONNECTION" ]

-----------------------------------------------------------------------------
(* Compression set-up and the reset between requests *)

\* compression switched on without the chunked framing it needs
web_client_enable_deflate_unchunked(c) ==
    IF c.zinitialized \/ c.response_sent # 0 THEN c
    ELSE [c EXCEPT !.zsent = 0, !.zoutput = TRUE, !.zinitialized = TRUE]

\* the zstream set up by deflateInit2(); zlib_inits counts the set-ups
\* that no deflateEnd() has released
DeflateInit(c) ==
    [c EXCEPT !.zstream_avail_in = 0, !.zstream_total_in = 0,
              !.zstream_avail_out = 0, !.zstream_total_out = 0,
              !.zlib_pending = 0, !.zlib_finished = FALSE,
              !.zlib_inits = @ + 1,
              !.zsent = 0, !.zoutput = TRUE, !.zinitialized = TRUE,
              !.flags = @ \cup {"CHUNKED_TRANSFER"}]

\* compression set up again at every call before the first response byte
web_client_enable_deflate_again(c) ==
    IF c.response_sent # 0 THEN c ELSE DeflateInit(c)

\* web_client_enable_deflate(): deflateInit2() is taken to succeed.
web_client_enable_deflate(c) ==
    IF c.zinitialized THEN c
    ELSE IF c.response_sent # 0 THEN c
    ELSE DeflateInit(c)

\* the six buffers of a client, and the header values it keeps copies of
ClientBuffers == {"url_as_received", "url_path_decoded", "url_query_string_decoded",
                  "response_header_output", "response_header", "response_data"}
CopiedValues == {"server_host", "forwarded_host", "origin", "user_agent",
                 "auth_bearer_token"}

\* the heap blocks the struct of client c points to: its buffers, the copies
\* of header values (NULL when none was copied), the POST payload, the
\* deflate state of an initialised zstream
Allocations(c) ==
    ClientBuffers
    \cup {f \in CopiedValues : c[f] # ""}
    \cup (IF c.post_payload # "" THEN {"post_payload"} ELSE {})
    \cup (IF c.zinitialized THEN {"zstream"} ELSE {})

\* the blocks web_client_reset_allocations(w, free_all) releases
ResetFrees(c, free_all) ==
    (IF free_all THEN ClientBuffers \cup {"post_payload"} ELSE {})
    \cup CopiedValues
    \cup (IF c.zinitialized THEN {"zstream"} ELSE {})

\* web_client_reset_allocations(w, false)
web_client_reset_allocations(c) ==
    LET c1 == [c EXCEPT !.url_as_received = "", !.url_path_decoded = "",
                        !.url_query_string_decoded = "",
                        !.response_header_output = "", !.response_header = "",
                        !.response_data = "", !.response_content_type = "CT_TEXT_PLAIN",
                        !.response_no_cacheable = FALSE,
                        !.server_host = "", !.forwarded_host = "", !.origin = "",
                        !.user_agent = "", !.auth_bearer_token = ""]
        c2 == IF c1.zinitialized
              THEN [c1 EXCEPT !.zsent = 0, !.zhave = 0, !.zbuffer = "",
                              !.zstream_avail_in = 0, !.zstream_avail_out = 0,
                              !.zstream_total_in = 0, !.zstream_total_out = 0,
                              !.zlib_pending = 0, !.zlib_finished = FALSE,
                              !.zlib_inits = 0,
                              !.zinitialized = FALSE,
                              !.flags = @ \ {"CHUNKED_TRANSFER"}]
              ELSE c1
    IN  web_client_reset_path_flags(c2)

\* web_client_request_done(): the access log and TCP_CORK are not modelled.
web_client_request_done(c) ==
    LET c1 == IF c.url_as_received # ""
              THEN [c EXCEPT !.received_bytes = 0, !.sent_bytes = 0] ELSE c
        c2 == IF c1.mode = "FILECOPY" /\ c1.ifd # c1.ofd
              THEN [c1 EXCEPT !.ifd = c1.ofd] ELSE c1
        c3 == web_client_reset_allocations(c2)
    IN  [c3 EXCEPT !.mode = "GET",
                   !.flags = (@ \ {"DONOTTRACK", "TRACKING_REQUIRED", "KEEPALIVE", "WAIT_SEND"})
                             \cup {"WAIT_RECEIVE"},
                   !.header_parse_tries = 0, !.header_parse_last_size = 0,
                   !.response_has_cookies = FALSE, !.response_rlen = 0,
                   !.response_sent = 0, !.response_code = 0, !.zoutput = FALSE]

\* memset(w, 0, sizeof(struct web_client))
ZeroedStruct ==
    [web_client_create EXCEPT
        !.flags = {}, !.ifd = "0", !.ofd = "0",
        !.use_count = 0, !.memory_accounting = "NULL", !.ssl = "zeroed"]

\* a reuse that does not put the use count back
web_client_reuse_from_cache_uncounted(c) ==
    LET Kept(r) ==
            [ZeroedStruct EXCEPT
                !.ifd = NO_FD, !.ofd = NO_FD,
                !.memory_accounting = r.memory_accounting, !.ssl = r.ssl,
                !.url_as_received = r.url_as_received,
                !.url_path_decoded = r.url_path_decoded,
                !.url_query_string_decoded = r.url_query_string_decoded,
                !.response_data = r.response_data,
                !.response_content_type = r.response_content_type,
                !.response_no_cacheable = r.response_no_cacheable,
                !.response_header = r.response_header,
                !.response_header_output = r.response_header_output]
    IN  Kept(web_client_reset_allocations(c))

\* web_client_reuse_from_cache(w): the client is zeroed but for the six
\* buffers, which web_client_reset_allocations() emptied, the accounting
\* pointer, the use count and the TLS handle; it has no descriptor
web_client_reuse_from_cache(c) ==
    LET Kept(r) ==
            [ZeroedStruct EXCEPT
                !.ifd = NO_FD, !.ofd = NO_FD,
                !.memory_accounting = r.memory_accounting,
                !.use_count = r.use_count, !.ssl = r.ssl,
                !.url_as_received = r.url_as_received,
                !.url_path_decoded = r.url_path_decoded,
                !.url_query_string_decoded = r.url_query_string_decoded,
                !.response_data = r.response_data,
                !.response_content_type = r.response_content_type,
                !.response_no_cacheable = r.response_no_cacheable,
                !.response_header = r.response_header,
                !.response_header_output = r.response_header_output]
    IN  Kept(web_client_reset_allocations(c))

\* the driver's set-up of a connection on a client: both descriptors are the
\* socket and the client waits for a request
ClientAccepted(c) ==
    [c EXCEPT !.ifd = SOCK_FD, !.ofd = SOCK_FD, !.flags = @ \cup {"WAIT_RECEIVE"}]

-----------------------------------------------------------------------------
(* Helpers of the URL library the validator calls *)

\* the characters the model's requests escape, by their two hex digits
PercentCode(h) ==
    CASE h = "20" -> " " [] h = "25" -> "%" [] h = "26" -> "&" [] h = "2E" -> "."
      [] h = "2F" -> "/" [] h = "3F" -> "?" [] h = "3D" -> "=" [] OTHER -> " "

RECURSIVE url_decode_r(_)
\* url_decode_r(): percent-decoding, '+' is a space
url_decode_r(s) ==
    IF s = "" THEN ""
    ELSE IF Ch(s, 1) = "%" /\ Len(s) >= 3
         THEN PercentCode(SubSeq(s, 2, 3)) \o url_decode_r(From(s, 4))
    ELSE IF Ch(s, 1) = "+" THEN " " \o url_decode_r(Tail(s))
    ELSE Ch(s, 1) \o url_decode_r(Tail(s))

\* url_find_protocol(s): the position of the first " HTTP/" at or after p,
\* the NUL when there is none
url_find_protocol(s, p) == FirstOf({k \in p..Len(s) : StartsAt(s, k, " HTTP/")}, Len(s) + 1)

\* url_is_request_complete(begin, end, length, &post_payload, &post_payload_size)
\* with end = begin + last_pos.  The end of the headers is looked for from
\* shortly before `end`; a POST or PUT is complete when the body announced
\* by Content-Length has arrived, and its body is noted as the payload.
url_is_request_complete(s, last_pos, length) ==
    LET no == [complete |-> FALSE, payload |-> "", has_payload |-> FALSE]
        Body(body, announced) ==
            IF Len(body) >= announced
            THEN [complete |-> TRUE, payload |-> SubSeq(body, 1, announced),
                  has_payload |-> TRUE]
            ELSE no
        Headers(cl, h) == IF h = 0 THEN no ELSE Body(From(s, h + 4), ParseDec(s, cl + 16, 0))
        Announced(cl) == IF cl = 0 THEN no ELSE Headers(cl, StrStr(s, cl, CRLFCRLF))
    IN  IF StartsAt(s, 1, "POST ") \/ StartsAt(s, 1, "PUT ")
        THEN Announced(StrStr(s, 1, "Content-Length: "))
        ELSE [complete |-> length >= 4
                           /\ StrStr(s, IF last_pos > 4 THEN last_pos - 4 + 1 ELSE 1,
                                      CRLFCRLF) # 0,
              payload |-> "", has_payload |-> FALSE]

-----------------------------------------------------------------------------
(* Header parser and request validator *)

\* web_client_decode_path_and_query_string(w, path_and_query_string)
web_client_decode_path_and_query_string(c, url) ==
    LET Split(c1, buffer, q) ==
            IF c1.mode = "STREAM"
            THEN [c1 EXCEPT !.url_query_string_decoded = buffer]
            ELSE IF q # 0
                 THEN [c1 EXCEPT !.url_query_string_decoded = From(buffer, q),
                                 !.url_path_decoded = SubSeq(buffer, 1, q - 1)]
                 ELSE [c1 EXCEPT !.url_path_decoded = buffer]
        Decoded(c1, buffer) == Split(c1, buffer, StrStr(buffer, 1, "?"))
    IN  Decoded([c EXCEPT !.url_path_decoded = "", !.url_query_string_decoded = "",
                          !.url_as_received = IF @ = "" THEN url ELSE @],
                url_decode_r(url))

\* the effect of one recognised header (name, value) on the client
HeaderEffectWith(hs, c, cf, name, v, parse_useragent) ==
    LET \* hash == hash_x && !strcasecmp(s, x)
        Is(x) == StrCaseEq(name, x) /\ hs[x] = simple_uhash(name)
    IN  IF Is("Origin") THEN [c EXCEPT !.origin = v]
        ELSE IF Is("Connection")
             THEN IF StrCaseStr(v, "keep-alive") THEN web_client_enable_keepalive(c) ELSE c
        ELSE IF cf.respect_dnt /\ Is("DNT")
             THEN IF Ch(v, 1) = "0" THEN web_client_flag_clear(c, "DONOTTRACK")
                  ELSE IF Ch(v, 1) = "1" THEN web_client_flag_set(c, "DONOTTRACK")
                  ELSE c
        ELSE IF parse_useragent /\ Is("User-Agent") THEN [c EXCEPT !.user_agent = v]
        ELSE IF Is("X-Auth-Token") THEN [c EXCEPT !.auth_bearer_token = v]
        ELSE IF Is("Host") THEN [c EXCEPT !.server_host = v]
        ELSE IF Is("Accept-Encoding")
             THEN IF cf.web_enable_gzip /\ StrCaseStr(v, "gzip")
                  THEN web_client_enable_deflate(c) ELSE c
        ELSE IF Is("X-Forwarded-Host") THEN [c EXCEPT !.forwarded_host = v]
        ELSE c

\* the header names whose hashes http_header_parse() keeps in statics, in
\* the order it assigns them; the first is the one it tests
HeaderNames == <<"Origin", "Connection", "Accept-Encoding", "DNT", "User-Agent",
                 "X-Auth-Token", "Host", "X-Forwarded-Host">>

\* the statics of a function before and after its lazy initialisation
NoHashes(names) == [n \in {names[i] : i \in 1..Len(names)} |-> 0]
HeaderHashes == [n \in {HeaderNames[i] : i \in 1..Len(HeaderNames)} |-> simple_uhash(n)]

\* the effect of one header in a thread that initialised the statics itself
HeaderEffect(c, cf, name, v, parse_useragent) ==
    HeaderEffectWith(HeaderHashes, c, cf, name, v, parse_useragent)

\* http_header_parse(w, s, parse_useragent): the header line at position p of
\* buffer s; returns the client and the position the parser stopped at
http_header_parse(c, cf, s, p, parse_useragent) ==
    LET RECURSIVE SkipSp(_)
        SkipSp(i) == IF Ch(s, i) = " " THEN SkipSp(i + 1) ELSE i
        Value(e, v, ve) ==
            IF ve > Len(s) \/ Ch(s, ve + 1) # "\n" THEN [w |-> c, pos |-> ve]
            ELSE [w |-> HeaderEffect(c, cf, SubSeq(s, p, e - 1), SubSeq(s, v, ve - 1),
                                     parse_useragent),
                  pos |-> ve]
        Name(e, v) == Value(e, v, ScanTo(s, v, "\r"))
        Colon(e) == IF e > Len(s) THEN [w |-> c, pos |-> e] ELSE Name(e, SkipSp(e + 1))
    IN  Colon(ScanTo(s, p, ":"))

\* a STREAM test that accepts every transport
StreamNeedsTlsNever(cf) == FALSE

\* !SSL_connection(&w->ssl) && web_client_is_using_ssl_force(w)
StreamNeedsTls(cf) == ~cf.ssl_conn /\ cf.ssl_force

\* web_client_valid_method(w, s): pos = 0 is the NULL return
web_client_valid_method(c, cf, s) ==
    IF StartsAt(s, 1, "GET ") THEN [w |-> [c EXCEPT !.mode = "GET"], pos |-> 5]
    ELSE IF StartsAt(s, 1, "OPTIONS ") THEN [w |-> [c EXCEPT !.mode = "OPTIONS"], pos |-> 9]
    ELSE IF StartsAt(s, 1, "POST ") THEN [w |-> [c EXCEPT !.mode = "POST"], pos |-> 6]
    ELSE IF StartsAt(s, 1, "PUT ") THEN [w |-> [c EXCEPT !.mode = "PUT"], pos |-> 5]
    ELSE IF StartsAt(s, 1, "DELETE ") THEN [w |-> [c EXCEPT !.mode = "DELETE"], pos |-> 8]
    ELSE IF StartsAt(s, 1, "STREAM ")
         THEN IF StreamNeedsTls(cf)
              THEN [w |-> [web_client_disable_wait_receive(c) EXCEPT
                              !.header_parse_tries = 0, !.header_parse_last_size = 0,
                              !.mode = "STREAM"],
                    pos |-> 0]
              ELSE [w |-> [c EXCEPT !.mode = "STREAM"], pos |-> 8]
    ELSE [w |-> c, pos |-> 0]

\* a verdict that leaves the receive-wait as it was
ValidationEndArmed(c, verdict) ==
    [w |-> [c EXCEPT !.header_parse_tries = 0, !.header_parse_last_size = 0],
     v |-> verdict]

\* the verdict's common tail: the parse progress is cleared and receive-wait disarmed
ValidationEnd(c, verdict) ==
    [w |-> [web_client_disable_wait_receive(c) EXCEPT
               !.header_parse_tries = 0, !.header_parse_last_size = 0],
     v |-> verdict]

ValidationIncomplete(c) == [w |-> web_client_enable_wait_receive(c), v |-> "INCOMPLETE"]

RECURSIVE HeaderLoop(_, _, _, _, _, _)
\* the while(*s) loop of http_request_validate, from position p; the encoded
\* URL is s[url..ue)
HeaderLoop(c, cf, s, p, url, ue) ==
    LET Complete(c1) ==
            IF ~cf.unix /\ cf.ssl_ctx /\ ~cf.ssl_conn /\ (cf.ssl_force \/ cf.ssl_default)
               /\ c1.mode # "STREAM"
            THEN ValidationEnd(c1, "REDIRECT")
            ELSE ValidationEnd(c1, "OK")
        Parsed(hp) == HeaderLoop(hp.w, cf, s, hp.pos, url, ue)
        AfterCR(q) ==
            IF Ch(s, q) = "" THEN ValidationIncomplete(c)
            ELSE IF Ch(s, q) = "\n"
                 THEN IF Ch(s, q + 1) = "\r" /\ Ch(s, q + 2) = "\n"
                      THEN Complete(web_client_decode_path_and_query_string(
                                        c, SubSeq(s, url, ue - 1)))
                      ELSE Parsed(http_header_parse(c, cf, s, q + 1, c.mode = "STREAM"))
                 ELSE HeaderLoop(c, cf, s, q + 1, url, ue)
        AtCR(r) == AfterCR(IF r > Len(s) THEN r ELSE r + 1)
    IN  IF Ch(s, p) = "" THEN ValidationIncomplete(c) ELSE AtCR(ScanTo(s, p, "\r"))

\* http_request_validate(w): the client after the call and the verdict
http_request_validate(c0, cf) ==
    LET s == c0.response_data
        tries == c0.header_parse_tries + 1
        back == IF c0.header_parse_last_size > 4 THEN c0.header_parse_last_size - 4 ELSE 0
        last_pos == IF tries > 1 THEN (IF Len(s) < back THEN 0 ELSE back) ELSE Len(s)
        Excess(c, check) ==
            IF check # 0 /\ Ch(s, check + 4) # ""
            THEN ValidationEnd(c, "EXCESS_REQUEST_DATA")
            ELSE ValidationIncomplete(c)
        Url(m, ue) ==
            IF ue > Len(s) THEN ValidationIncomplete(m.w)
            ELSE HeaderLoop(m.w, cf, s, ue, m.pos, ue)
        Method(complete, m) ==
            IF m.pos = 0 THEN ValidationEnd(m.w, "NOT_SUPPORTED")
            ELSE IF ~complete THEN Excess(m.w, StrStr(s, 1, CRLFCRLF))
            ELSE Url(m, url_find_protocol(s, m.pos))
        Probed(complete, c2) ==
            IF tries > 1 /\ ~complete
            THEN IF tries > MAX_TRIES
                 THEN ValidationEnd(c2, "TOO_MANY_READ_RETRIES")
                 ELSE [w |-> c2, v |-> "INCOMPLETE"]
            ELSE Method(complete, web_client_valid_method(c2, cf, s))
        Probe(probe) ==
            Probed(probe.complete,
                   IF probe.has_payload
                   THEN [c0 EXCEPT !.header_parse_tries = tries,
                                   !.header_parse_last_size = Len(s),
                                   !.post_payload = probe.payload,
                                   !.post_payload_size = Len(probe.payload)]
                   ELSE [c0 EXCEPT !.header_parse_tries = tries,
                                   !.header_parse_last_size = Len(s)])
    IN  Probe(url_is_request_complete(s, last_pos, Len(s)))

-----------------------------------------------------------------------------
(* Response head *)

HTTP_RESP_OK == 200
HTTP_RESP_MOVED_PERM == 301
HTTP_RESP_REDIR_TEMP == 307
HTTP_RESP_HTTPS_UPGRADE == 399
HTTP_RESP_BAD_REQUEST == 400
HTTP_RESP_FORBIDDEN == 403
HTTP_RESP_NOT_FOUND == 404
HTTP_RESP_PRECOND_FAIL == 412
HTTP_RESP_GATEWAY_TIMEOUT == 504

\* web_response_code_to_string(code)
web_response_code_to_string(code) ==
    CASE code = 200 -> "OK"
      [] code = 301 -> "Moved Permanently"
      [] code = 307 -> "Temporary Redirect"
      [] code = 400 -> "Bad Request"
      [] code = 403 -> "Forbidden"
      [] code = 404 -> "Not Found"
      [] code = 412 -> "Precondition Failed"
      [] code = 504 -> "Gateway Timeout"
      [] OTHER -> IF code >= 100 /\ code < 200 THEN "Informational"
                  ELSE IF code >= 200 /\ code < 300 THEN "Successful"
                  ELSE IF code >= 300 /\ code < 400 THEN "Redirection"
                  ELSE IF code >= 400 /\ code < 500 THEN "Client Error"
                  ELSE IF code >= 500 /\ code < 600 THEN "Server Error"
                  ELSE "Undefined Error"

\* web_content_type_to_string(content_type), for the types the model produces
web_content_type_to_string(ct) ==
    CASE ct = "CT_TEXT_HTML" -> "text/html; charset=utf-8"
      [] ct = "CT_APPLICATION_X_JAVASCRIPT" -> "application/javascript; charset=utf-8"
      [] ct = "CT_APPLICATION_JSON" -> "application/json; charset=utf-8"
      [] ct = "CT_APPLICATION_OCTET_STREAM" -> "application/octet-stream"
      [] OTHER -> "text/plain; charset=utf-8"

\* a length known from the buffer only
ContentLengthKnownByData(c) == Len(c.response_data) # 0

\* w->response.data->len || w->response.rlen
ContentLengthKnown(c) == Len(c.response_data) # 0 \/ c.response_rlen # 0

\* web_client_build_http_header(w).  The two dates are rendered as <date> and
\* <expires>; X-Frame-Options is not configured.
web_client_build_http_header(c, cf) ==
    LET First(c1) ==
            IF c1.response_code = HTTP_RESP_HTTPS_UPGRADE
            THEN "HTTP/1.1 " \o DecStr(c1.response_code) \o " "
                 \o web_response_code_to_string(c1.response_code) \o CRLF
                 \o "Location: https://" \o c1.server_host \o c1.url_as_received \o CRLF
            ELSE "HTTP/1.1 " \o DecStr(c1.response_code) \o " "
                 \o web_response_code_to_string(c1.response_code) \o CRLF
                 \o "Connection: "
                 \o (IF web_client_has_keepalive(c1) THEN "keep-alive" ELSE "close") \o CRLF
                 \o "Server: Netdata Embedded HTTP Server VERSION" \o CRLF
                 \o "Access-Control-Allow-Origin: "
                 \o (IF c1.origin # "" THEN c1.origin ELSE "*") \o CRLF
                 \o "Access-Control-Allow-Credentials: true" \o CRLF
                 \o "Content-Type: " \o web_content_type_to_string(c1.response_content_type)
                 \o CRLF
                 \o "Date: <date>" \o CRLF
        Tk(c2) ==
            IF ~cf.respect_dnt THEN ""
            ELSE IF c2.response_has_cookies THEN "Tk: T;cookies" \o CRLF
            ELSE IF "TRACKING_REQUIRED" \in c2.flags THEN "Tk: T;cookies" \o CRLF
            ELSE "Tk: N" \o CRLF
        Cache(c2) ==
            IF c2.mode = "OPTIONS"
            THEN "Access-Control-Allow-Methods: GET, OPTIONS" \o CRLF
                 \o "Access-Control-Allow-Headers: accept, x-requested-with, origin, content-type, cookie, pragma, cache-control, x-auth-token"
                 \o CRLF
                 \o "Access-Control-Max-Age: 1209600" \o CRLF
            ELSE "Cache-Control: "
                 \o (IF c2.response_no_cacheable
                     THEN "no-cache, no-store, must-revalidate" \o CRLF \o "Pragma: no-cache"
                     ELSE "public") \o CRLF
                 \o "Expires: <expires>" \o CRLF
        Gz(c2) == IF c2.zoutput THEN "Content-Encoding: gzip" \o CRLF ELSE ""
        Chunked(c2) == "CHUNKED_TRANSFER" \in c2.flags
        Known(c2) == ContentLengthKnown(c2)
        Framing(c2) ==
            IF Chunked(c2) THEN "Transfer-Encoding: chunked" \o CRLF
            ELSE IF Known(c2)
                 THEN "Content-Length: "
                      \o DecStr(IF Len(c2.response_data) # 0 THEN Len(c2.response_data)
                                ELSE c2.response_rlen) \o CRLF
                 ELSE ""
        Compose(c2, first) ==
            [(IF ~Chunked(c2) /\ ~Known(c2) THEN web_client_disable_keepalive(c2) ELSE c2)
                EXCEPT !.response_header_output =
                    @ \o first \o Tk(c2) \o Cache(c2) \o c2.response_header \o Gz(c2)
                      \o Framing(c2) \o CRLF]
        Status(c1) ==
            Compose(IF c1.response_code = HTTP_RESP_HTTPS_UPGRADE
                    THEN [c1 EXCEPT !.response_code = HTTP_RESP_MOVED_PERM] ELSE c1,
                    First(c1))
    IN  Status(IF c.response_code # HTTP_RESP_OK
               THEN [c EXCEPT !.response_no_cacheable = TRUE] ELSE c)

\* a head whose bytes are not counted
HeaderSendResultUncounted(c, bytes) == IF bytes < 0 THEN WEB_CLIENT_IS_DEAD(c) ELSE c

\* the part of web_client_send_http_header() after the send: `bytes` is what
\* the send loop ended with (-1 for a failure)
HeaderSendResult(c, bytes) ==
    IF bytes # Len(c.response_header_output)
    THEN IF bytes > 0 THEN [c EXCEPT !.sent_bytes = @ + bytes]
         ELSE IF bytes < 0 THEN WEB_CLIENT_IS_DEAD(c)
         ELSE c
    ELSE [c EXCEPT !.sent_bytes = @ + bytes]

\* what send() returns when asked for len bytes and the socket takes k
\* (k < 0: an error, -2 standing for EAGAIN, EWOULDBLOCK or EINTR; k = 0 only
\* happens for an encrypted transport)
SendResult(len, k) == IF len = 0 THEN 0 ELSE IF k < 0 THEN -1 ELSE Min(k, len)

\* web_client_send_http_header(w): the client, and the bytes put on the
\* socket; k is what the socket takes
web_client_send_http_header(c, cf, k) ==
    LET Sent(c1, n) ==
            [w |-> HeaderSendResult(c1, n),
             out |-> IF n > 0 THEN SubSeq(c1.response_header_output, 1, n) ELSE ""]
        Built(c1) == Sent(c1, SendResult(Len(c1.response_header_output), k))
    IN  Built(web_client_build_http_header(c, cf))

-----------------------------------------------------------------------------
(* The web root the static-file responder serves *)

\* netdata_configured_web_dir
WebDir == "/w"

\* the directories and the regular files (with st_size) that stat() finds
FsDirs == {"/w", "/w/v2", "/w/d"}
FsFiles == [p \in {"/w/index.html", "/w/v2/index.html", "/w/a.js", "/w/d/index.html",
                   "/w/big.bin"}
            |-> CASE p = "/w/index.html" -> 2
                  [] p = "/w/v2/index.html" -> 2
                  [] p = "/w/a.js" -> 0
                  [] p = "/w/d/index.html" -> 1
                  [] OTHER -> 6]

\* the bytes of a file of the given size
FileBytes(size) == SubSeq("fghijklmnopqrstuvwxyz", 1, size)

RECURSIVE PathNorm(_)
\* the kernel's view of a path: repeated and trailing slashes do not count
PathNorm(p) ==
    LET Norm(k) ==
            IF k # 0 THEN PathNorm(SubSeq(p, 1, k) \o From(p, k + 2))
            ELSE IF Len(p) > 1 /\ Ch(p, Len(p)) = "/" THEN PathNorm(SubSeq(p, 1, Len(p) - 1))
            ELSE p
    IN  Norm(StrStr(p, 1, "//"))

\* stat(path): "dir", "file" or "none"
StatKind(p) ==
    LET Kind(n) ==
            IF n \in FsDirs THEN "dir"
            ELSE IF n \in DOMAIN FsFiles /\ Ch(p, Len(p)) # "/" THEN "file"
            ELSE "none"
    IN  Kind(PathNorm(p))

StatSize(p) ==
    LET Size(n) == IF n \in DOMAIN FsFiles THEN FsFiles[n] ELSE 0
    IN  Size(PathNorm(p))

-----------------------------------------------------------------------------
(* Static-file responder *)

AlnumChars == "abcdefghijklmnopqrstuvwxyzABCDEFGHIJKLMNOPQRSTUVWXYZ0123456789"

\* the characters mysendfile() accepts in a file name
IsFilenameChar(ch) == StrStr(AlnumChars, 1, ch) # 0 \/ ch \in {"/", ".", "-", "_"}

RECURSIVE buffer_strcat_htmlescape(_)
\* buffer_strcat_htmlescape(): the text as it is appended
buffer_strcat_htmlescape(s) ==
    IF s = "" THEN ""
    ELSE (CASE Ch(s, 1) = "&" -> "&amp;" [] Ch(s, 1) = "<" -> "&lt;"
            [] Ch(s, 1) = ">" -> "&gt;" [] Ch(s, 1) = "/" -> "&#x2F;"
            [] OTHER -> Ch(s, 1)) \o buffer_strcat_htmlescape(Tail(s))

RECURSIVE SkipSlashes(_)
SkipSlashes(s) == IF Ch(s, 1) = "/" THEN SkipSlashes(Tail(s)) ELSE s

\* web_client_permission_denied(w)
web_client_permission_denied(c) ==
    [c EXCEPT !.response_content_type = "CT_TEXT_PLAIN",
              !.response_data = "You are not allowed to access this resource.",
              !.response_code = HTTP_RESP_FORBIDDEN]

\* bad_request_multiple_dashboard_versions(w)
bad_request_multiple_dashboard_versions(c) ==
    [c EXCEPT !.response_content_type = "CT_TEXT_PLAIN",
              !.response_data = "Multiple dashboard versions given at the URL.",
              !.response_code = HTTP_RESP_BAD_REQUEST]

\* dashboard_version(w)
dashboard_version(c) ==
    IF ~web_client_has_path_version(c) THEN -1
    ELSE IF "PATH_IS_V0" \in c.flags THEN 0
    ELSE IF "PATH_IS_V1" \in c.flags THEN 1
    ELSE IF "PATH_IS_V2" \in c.flags THEN 2
    ELSE -1

\* contenttype_for_filename(filename), for the extensions of the web root
contenttype_for_filename(filename) ==
    LET Type(last, ext) ==
            IF last = 0 \/ ext = "" THEN "CT_APPLICATION_OCTET_STREAM"
            ELSE IF ext = "html" THEN "CT_TEXT_HTML"
            ELSE IF ext = "js" THEN "CT_APPLICATION_X_JAVASCRIPT"
            ELSE "CT_APPLICATION_OCTET_STREAM"
        Dot(last) == Type(last, From(filename, last + 1))
    IN  Dot(LastOf({k \in 1..Len(filename) : Ch(filename, k) = "."}, 0))

\* append_slash_to_url_and_redirect(w)
append_slash_to_url_and_redirect(c) ==
    LET \* the position after the last '/' before position `hi`, 1 when none
        After(e) == IF Ch(c.url_as_received, e) = "/" THEN e + 1 ELSE e
        LastComp(hi) == After(LastOf({k \in 2..hi : Ch(c.url_as_received, k) = "/"}, 1))
        Loc(b, q) ==
            IF q > 1
            THEN SubSeq(b, LastComp(q - 1), q - 1) \o "/" \o From(b, q)
            ELSE From(b, LastComp(Len(b))) \o "/"
    IN  [w |-> [c EXCEPT !.response_header =
                             @ \o "Location: "
                               \o Loc(c.url_as_received, StrStr(c.url_as_received, 1, "?"))
                               \o CRLF,
                         !.response_content_type = "CT_TEXT_HTML",
                         !.response_data = "<!DOCTYPE html><html>Redirecting.</html>"],
         code |-> HTTP_RESP_MOVED_PERM]

\* find_filename_to_serve(): found, the resolved name, is_dir and the client
\* (the trailing-slash flag may be set)
find_filename_to_serve(c, filename) ==
    LET has_extension == "PATH_HAS_FILE_EXTENSION" \in c.flags
        plain == WebDir \o "/" \o filename
        Vdir(d_version) == WebDir \o "/v" \o DecStr(IF d_version < 0 THEN 0 ELSE d_version)
        First(d_version) ==
            IF has_extension
            THEN IF d_version = -1 THEN plain ELSE Vdir(d_version) \o "/" \o filename
            ELSE IF d_version # -1
                 THEN IF filename # "" THEN plain ELSE Vdir(d_version)
                 ELSE plain
        Fallback(d_version) ==
            IF has_extension THEN (IF d_version = -1 THEN 0 ELSE 1)
            ELSE IF d_version # -1 THEN (IF filename # "" THEN 2 ELSE 0)
            ELSE 3
        Slash == IF filename # "" THEN web_client_flag_set(c, "PATH_HAS_TRAILING_SLASH") ELSE c
        Result(found, is_dir, name, c1) ==
            [found |-> found, name |-> name, is_dir |-> is_dir, w |-> c1]
        Index(dst2, c1) == Result(StatKind(dst2) # "none", TRUE, dst2, c1)
        Stat(kind, dst, c1) ==
            IF kind = "dir" THEN Index(dst \o "/index.html", c1)
            ELSE Result(kind # "none", FALSE, dst, c1)
        Resolved(dst, c1) == Stat(StatKind(dst), dst, c1)
        Tried(hit, first, fallback, d_version) ==
            Resolved(IF hit THEN first
                     ELSE IF fallback = 1 THEN plain
                     ELSE IF fallback = 2 THEN Vdir(d_version)
                     ELSE IF fallback = 3 THEN WebDir
                     ELSE first,
                     IF ~hit /\ fallback \in {2, 3} THEN Slash ELSE c)
        Try(first, d_version) ==
            Tried(StatKind(first) # "none", first, Fallback(d_version), d_version)
        Versioned(d_version) == Try(First(d_version), d_version)
    IN  Versioned(dashboard_version(c))

\* a filename check that lets everything through
HasDotDotUnchecked(filename) == FALSE

\* strstr(filename, "..") != 0
HasDotDot(filename) == StrStr(filename, 1, "..") # 0

\* what mysendfile() did with a name: whether it was called, the name after
\* the leading slashes, and whether the file system was looked at (stat)
NoFile == [called |-> FALSE, name |-> "", looked |-> FALSE]
FileSeen(filename, looked) == [called |-> TRUE, name |-> filename, looked |-> looked]

\* mysendfile(w, filename); opened is the result of open(): "ok", "EBUSY" or
\* another errno
mysendfile(c, cf, filename0, opened) ==
    LET html(cc, text) == [cc EXCEPT !.response_content_type = "CT_TEXT_HTML",
                                     !.response_data = @ \o text]
        Serve(filename, f) ==
            IF ~f.found
            THEN [w |-> html(f.w, "File does not exist, or is not accessible: "
                                  \o buffer_strcat_htmlescape(f.name)),
                  code |-> HTTP_RESP_NOT_FOUND, opened |-> FALSE]
            ELSE IF f.is_dir /\ "PATH_HAS_TRAILING_SLASH" \notin f.w.flags
            THEN append_slash_to_url_and_redirect(f.w) @@ [opened |-> FALSE]
            ELSE IF opened = "EBUSY"
            THEN [w |-> [html(f.w, "File is currently busy, please try again later: "
                                   \o buffer_strcat_htmlescape(f.name))
                           EXCEPT !.ifd = f.w.ofd,
                                  !.response_header = @ \o "Location: /" \o filename \o CRLF],
                  code |-> HTTP_RESP_REDIR_TEMP, opened |-> FALSE]
            ELSE IF opened # "ok"
            THEN [w |-> [html(f.w, "Cannot open file: " \o buffer_strcat_htmlescape(f.name))
                           EXCEPT !.ifd = f.w.ofd],
                  code |-> HTTP_RESP_NOT_FOUND, opened |-> FALSE]
            ELSE [w |-> [f.w EXCEPT !.ifd = FILE_FD,
                                    !.response_content_type = contenttype_for_filename(f.name),
                                    !.mode = "FILECOPY",
                                    !.flags = (@ \cup {"WAIT_RECEIVE"}) \ {"WAIT_SEND"},
                                    !.response_data = "",
                                    !.response_rlen = StatSize(f.name),
                                    !.response_no_cacheable = FALSE],
                  code |-> HTTP_RESP_OK, opened |-> TRUE]
        Checked(filename) ==
            IF "dashboard" \notin cf.acl
            THEN [w |-> web_client_permission_denied(c), code |-> HTTP_RESP_FORBIDDEN,
                  opened |-> FALSE, file |-> FileSeen(filename, FALSE)]
            ELSE IF \E k \in 1..Len(filename) : ~IsFilenameChar(Ch(filename, k))
            THEN [w |-> html(c, "Filename contains invalid characters: "
                                \o buffer_strcat_htmlescape(filename)),
                  code |-> HTTP_RESP_BAD_REQUEST, opened |-> FALSE,
                  file |-> FileSeen(filename, FALSE)]
            ELSE IF HasDotDot(filename)
            THEN [w |-> html(c, "Relative filenames are not supported: "
                                \o buffer_strcat_htmlescape(filename)),
                  code |-> HTTP_RESP_BAD_REQUEST, opened |-> FALSE,
                  file |-> FileSeen(filename, FALSE)]
            ELSE Serve(filename, find_filename_to_serve(c, filename))
                 @@ [file |-> FileSeen(filename, TRUE)]
    IN  Checked(SkipSlashes(filename0))

-----------------------------------------------------------------------------
(* Dispatch router *)

\* a char* that may be NULL
Ptr(s) == [s |-> s, null |-> FALSE]
NullPtr == [s |-> "", null |-> TRUE]

\* strsep(&ptr, seps) on a non-NULL ptr
StrSep(s, seps) ==
    LET Cut(k) ==
            IF k = 0 THEN [tok |-> s, rest |-> NullPtr]
            ELSE [tok |-> SubSeq(s, 1, k - 1), rest |-> Ptr(From(s, k + 1))]
    IN  Cut(FirstOf({k \in 1..Len(s) : Ch(s, k) \in seps}, 0))

RECURSIVE strsep_skip_consecutive_separators(_, _)
\* strsep_skip_consecutive_separators(&ptr, seps): the token and the new ptr
strsep_skip_consecutive_separators(ptr, seps) ==
    LET Skip(r) ==
            IF r.tok = "" /\ ~r.rest.null
            THEN strsep_skip_consecutive_separators(r.rest, seps)
            ELSE r
    IN  IF ptr.null THEN [tok |-> "", rest |-> ptr]
        ELSE Skip(StrSep(ptr.s, seps))

\* web_client_timeout_checkpoint_set(w, timeout_ms), called by the data
\* queries of the API; tv_in is already set by web_client_process_request
web_client_timeout_checkpoint_set(c, timeout) == [c EXCEPT !.timeout_ut = timeout]

\* web_client_api_request(host, w, url): v1 and v2 are the opaque handlers,
\* whose reply is env.api
web_client_api_request(c, url, env) ==
    LET Version(t) ==
            IF t.tok # ""
            THEN IF t.tok \in {"v1", "v2"}
                 THEN [w |-> [web_client_timeout_checkpoint_set(c, env.api.timeout) EXCEPT
                                 !.response_data = env.api.body,
                                 !.response_content_type = "CT_APPLICATION_JSON"],
                       code |-> env.api.code, opened |-> FALSE]
                 ELSE [w |-> [c EXCEPT !.response_content_type = "CT_TEXT_HTML",
                                       !.response_data = "Unsupported API version: "
                                                         \o buffer_strcat_htmlescape(t.tok)],
                       code |-> HTTP_RESP_NOT_FOUND, opened |-> FALSE]
            ELSE [w |-> [c EXCEPT !.response_data = "Which API version?"],
                  code |-> HTTP_RESP_BAD_REQUEST, opened |-> FALSE]
    IN  Version(strsep_skip_consecutive_separators(url, {"/"}))

\* the path segments whose hashes web_client_process_url() keeps in statics,
\* in the order it assigns them; the first is the one it tests
UrlTokens == <<"api", "netdata.conf", "host", "node", "v0", "v1", "v2">>

UrlHashes == [n \in {UrlTokens[i] : i \in 1..Len(UrlTokens)} |-> simple_hash(n)]

\* the branch web_client_process_url() takes for the first segment of the
\* path when its statics hold hs (hash == hash_x && strcmp(tok, x) == 0):
\* the segment, or "file" for the static-file responder
UrlBranch(hs, tok) ==
    IF tok \in DOMAIN hs /\ hs[tok] = simple_hash(tok) THEN tok ELSE "file"


\* how deep a URL can nest version and host segments in the model
MaxDepth == 4

RECURSIVE web_client_process_url(_, _, _, _, _, _)
\* web_client_process_url(host, w, decoded_url_path); web_client_switch_host()
\* is inlined at the host and node segments (env.host_found is the lookup)
web_client_process_url(host, c, cf, path, env, depth) ==
    LET filename == IF path.null THEN "" ELSE path.s
        version(flag, rest) ==
            IF web_client_has_path_version(c)
            THEN [w |-> bad_request_multiple_dashboard_versions(c),
                  code |-> HTTP_RESP_BAD_REQUEST, opened |-> FALSE]
            ELSE web_client_process_url(host, web_client_flag_set(c, flag), cf, rest,
                                        env, depth - 1)
        SwitchHost(h) ==
            IF host # "localhost"
            THEN [w |-> [c EXCEPT !.response_data = "Nesting of hosts is not allowed."],
                  code |-> HTTP_RESP_BAD_REQUEST, opened |-> FALSE]
            ELSE IF h.tok # "" /\ env.host_found
            THEN IF h.rest.null
                 THEN append_slash_to_url_and_redirect(c) @@ [opened |-> FALSE]
                 ELSE web_client_process_url(
                          "other", [c EXCEPT !.url_path_decoded = "/" \o h.rest.s], cf,
                          Ptr("/" \o h.rest.s), env, depth - 1)
            ELSE [w |-> [c EXCEPT !.response_content_type = "CT_TEXT_HTML",
                                  !.response_data =
                                      "This netdata does not maintain a database for host: "
                                      \o buffer_strcat_htmlescape(h.tok)],
                  code |-> HTTP_RESP_NOT_FOUND, opened |-> FALSE]
        Branch(t, b) ==
            IF depth = 0 THEN [w |-> c, code |-> HTTP_RESP_BAD_REQUEST, opened |-> FALSE]
            ELSE IF b = "api" THEN web_client_api_request(c, t.rest, env)
            ELSE IF b \in {"host", "node"}
            THEN SwitchHost(strsep_skip_consecutive_separators(t.rest, {"/"}))
            ELSE IF b = "v2" THEN version("PATH_IS_V2", t.rest)
            ELSE IF b = "v1" THEN version("PATH_IS_V1", t.rest)
            ELSE IF b = "v0" THEN version("PATH_IS_V0", t.rest)
            ELSE IF b = "netdata.conf"
            THEN IF "netdataconf" \notin cf.acl
                 THEN [w |-> web_client_permission_denied(c), code |-> HTTP_RESP_FORBIDDEN,
                       opened |-> FALSE]
                 ELSE [w |-> [c EXCEPT !.response_content_type = "CT_TEXT_PLAIN",
                                       !.response_data = "[global]"],
                       code |-> HTTP_RESP_OK, opened |-> FALSE]
            ELSE mysendfile([c EXCEPT !.response_data = ""], cf, filename, env.opened)
        Route(t) == Branch(t, UrlBranch(UrlHashes, t.tok))
    IN  Route(strsep_skip_consecutive_separators(path, {"/", "?"}))

-----------------------------------------------------------------------------
(* web_client_process_request *)

\* the path flags web_client_process_request() derives from the decoded path
RequestPathFlags(path0) ==
    LET \* while(--e > s): positions e-1 down to 2
        Stop(e) == LastOf({k \in 2..(e - 1) : Ch(path0, k) \in {"/", "."}}, 0)
        Ext(stop) ==
            IF stop # 0 /\ Ch(path0, stop) = "." THEN {"PATH_HAS_FILE_EXTENSION"} ELSE {}
        \* e is the position of the end of the path
        Flags(e) ==
            (IF e = 1 \/ Ch(path0, e - 1) = "/" THEN {"PATH_HAS_TRAILING_SLASH"} ELSE {})
            \cup Ext(Stop(e))
        Query(q) == Flags(IF q = 0 THEN Len(path0) + 1 ELSE q)
    IN  Query(StrStr(path0, 1, "?"))

\* an incomplete request that keeps the mode the method token gave it
WaitForMoreDataAsIs(c) == c

\* wait for more data: the mode goes back to normal, so that the receive
\* callback does not go into stream mode
WaitForMoreData(c) == IF c.mode = "STREAM" THEN [c EXCEPT !.mode = "GET"] ELSE c

AnyAcl(cf) == cf.acl \cap {"dashboard", "registry", "badges", "mgmt", "netdataconf"} # {}

\* the switch on the validator's verdict: the client, whether a response is
\* to be sent (FALSE for the early returns) and whether a file was opened
RequestSwitch(c, cf, verdict, env) ==
    LET bad(text) == [w |-> [c EXCEPT !.response_data = text,
                                      !.response_code = HTTP_RESP_BAD_REQUEST],
                      respond |-> TRUE, opened |-> FALSE]
        Routed(r) == [w |-> [r.w EXCEPT !.response_code = r.code],
                      respond |-> TRUE, opened |-> r.opened,
                      file |-> IF "file" \in DOMAIN r THEN r.file ELSE NoFile]
    IN  CASE verdict = "OK" ->
              IF c.mode = "STREAM"
              THEN IF "stream" \notin cf.acl
                   THEN [w |-> web_client_permission_denied(c), respond |-> FALSE,
                         opened |-> FALSE]
                   ELSE [w |-> [c EXCEPT !.response_code = env.stream_code],
                         respond |-> FALSE, opened |-> FALSE, spawned |-> TRUE]
              ELSE IF ~AnyAcl(cf)
              THEN [w |-> web_client_permission_denied(c), respond |-> TRUE, opened |-> FALSE]
              ELSE IF c.mode = "OPTIONS"
              THEN [w |-> [c EXCEPT !.response_content_type = "CT_TEXT_PLAIN",
                                    !.response_data = "OK",
                                    !.response_code = HTTP_RESP_OK],
                    respond |-> TRUE, opened |-> FALSE]
              ELSE Routed(web_client_process_url(
                              "localhost",
                              [web_client_reset_path_flags(c) EXCEPT
                                  !.flags = @ \cup RequestPathFlags(c.url_path_decoded)],
                              cf, Ptr(c.url_path_decoded), env, MaxDepth))
          [] verdict = "INCOMPLETE" ->
              IF Len(c.response_data) > MAX_REQUEST
              THEN [w |-> [c EXCEPT !.url_as_received = "too big request",
                                    !.response_data =
                                        "Received request is too big  (received "
                                        \o DecStr(Len(c.response_data)) \o " bytes, max is "
                                        \o DecStr(MAX_REQUEST) \o " bytes)." \o CRLF,
                                    !.response_code = HTTP_RESP_BAD_REQUEST],
                    respond |-> TRUE, opened |-> FALSE]
              ELSE [w |-> WaitForMoreData(c), respond |-> FALSE, opened |-> FALSE]
          [] verdict = "REDIRECT" ->
              [w |-> [c EXCEPT !.response_data = "<!DOCTYPE html><html>Redirecting to safety connection.</html>",
                               !.response_content_type = "CT_TEXT_HTML",
                               !.response_code = HTTP_RESP_HTTPS_UPGRADE],
               respond |-> TRUE, opened |-> FALSE]
          [] verdict = "MALFORMED_URL" -> bad("Malformed URL..." \o CRLF)
          [] verdict = "EXCESS_REQUEST_DATA" -> bad("Excess data in request." \o CRLF)
          [] verdict = "TOO_MANY_READ_RETRIES" -> bad("Too many retries to read request." \o CRLF)
          [] OTHER -> bad("HTTP method requested is not supported..." \o CRLF)

\* the tail of web_client_process_request(), from the response-ready
\* checkpoint on: header out, then the wait flags
RequestRespond(c, cf, hdr, t) ==
    LET File(c2) ==
            IF c2.mode = "FILECOPY" /\ c2.response_rlen # 0
            THEN web_client_enable_wait_receive(c2) ELSE c2
        Wait(c1) ==
            File(IF Len(c1.response_data) # 0 THEN web_client_enable_wait_send(c1)
                 ELSE web_client_disable_wait_send(c1))
        Started(s) == [w |-> Wait(s.w), out |-> s.out]
    IN  Started(web_client_send_http_header([c EXCEPT !.tv_ready = t, !.response_sent = 0],
                                         cf, hdr))

\* web_client_process_request(w) at time t, hdr being what the socket takes
\* of the head: the client, the bytes written,
\* the verdict, whether a response was started and whether a file was opened
web_client_process_request(c, cf, env, hdr, t) ==
    LET Responded(r, v, sw) ==
            [w |-> r.w, out |-> r.out, verdict |-> v.v, respond |-> TRUE,
             opened |-> sw.opened,
             file |-> IF "file" \in DOMAIN sw THEN sw.file ELSE NoFile,
             spawned |-> FALSE]
        Switched(v, sw) ==
            IF sw.respond
            THEN Responded(RequestRespond(sw.w, cf, hdr, t), v, sw)
            ELSE [w |-> sw.w, out |-> "", verdict |-> v.v, respond |-> FALSE,
                  opened |-> FALSE, file |-> NoFile,
                  spawned |-> "spawned" \in DOMAIN sw]
        Validated(v) == Switched(v, RequestSwitch(v.w, cf, v.v, env))
    IN  Validated(http_request_validate([c EXCEPT !.tv_in = t], cf))

-----------------------------------------------------------------------------
(* Compression pipeline and send engine *)

\* the output sizes the compressor may produce for `take` new input bytes
\* when `pending` bytes are still buffered inside it: at least the flush
\* marker or the trailer, at most the input plus that, and the sizes that
\* fill the output buffer exactly or overflow it by one; -1 stands for a
\* compressor that reports Z_STREAM_ERROR
GenChoices(take, pending, flush, finished) ==
    LET Sizes(lo, hi) ==
            {g \in {lo, hi, ZCHUNK - pending, ZCHUNK - pending + 1} : lo <= g /\ g <= hi}
        From0(lo) == Sizes(lo, IF lo = 0 THEN 0 ELSE take + 1) \cup {-1}
    IN  From0(IF finished THEN 0
              ELSE IF flush = "Z_FINISH" \/ take > 0 THEN 1 ELSE 0)

\* deflate(&zstream, flush) with avail_out = ZCHUNK; gen is the size the
\* compressor produces, -1 when it finds its state inconsistent
\* (Z_STREAM_ERROR).  A stream that was finished cannot be flushed again
\* (Z_STREAM_ERROR); output buffered inside the compressor goes out first and
\* stalls the input while it fills the output buffer.
deflate(c, flush, gen) ==
    LET Run(stall, take, total, out) ==
            [w |-> [c EXCEPT !.zstream_avail_in = @ - take,
                             !.zstream_total_in = @ + take,
                             !.zstream_avail_out = ZCHUNK - out,
                             !.zstream_total_out = @ + out,
                             !.zlib_pending = total - out,
                             !.zlib_finished = @ \/ (~stall /\ flush = "Z_FINISH"),
                             !.zbuffer = SubSeq("zzzzzzzzzzzzzzzz", 1, out)],
             err |-> FALSE]
        Produce(stall, total) ==
            Run(stall, IF stall THEN 0 ELSE c.zstream_avail_in, total, Min(total, ZCHUNK))
        Stall(stall) ==
            Produce(stall, c.zlib_pending + (IF stall \/ c.zlib_finished THEN 0 ELSE gen))
    IN  IF gen < 0 \/ (c.zlib_finished /\ flush # "Z_FINISH") THEN [w |-> c, err |-> TRUE]
        ELSE Stall(c.zlib_pending >= ZCHUNK)

\* web_client_send_chunk_header / _close / _finalize: send `text`, count the
\* bytes, mark the client dead on a failure
SendFraming(c, text, k) ==
    LET Sent(bytes) ==
            [w |-> IF bytes > 0 THEN [c EXCEPT !.sent_bytes = @ + bytes]
                   ELSE IF bytes = 0 THEN c
                   ELSE WEB_CLIENT_IS_DEAD(c),
             bytes |-> bytes,
             out |-> IF bytes > 0 THEN SubSeq(text, 1, bytes) ELSE "",
             calls |-> 1, k |-> k]
    IN  Sent(SendResult(Len(text), k))

web_client_send_chunk_header(c, len, k) == SendFraming(c, HexStr(len) \o CRLF, k)
web_client_send_chunk_close(c, k) == SendFraming(c, CRLF, k)
web_client_send_chunk_finalize(c, k) == SendFraming(c, CRLF \o "0" \o CRLFCRLF, k)

\* the flush web_client_send_deflate() asks of the compressor
DeflateFlush(c) ==
    IF c.mode \in {"GET", "POST", "PUT", "DELETE"}
       \/ (c.mode = "FILECOPY" /\ ~web_client_has_wait_receive(c)
           /\ Len(c.response_data) = c.response_rlen)
    THEN "Z_FINISH" ELSE "Z_SYNC_FLUSH"

\* what the send engine does when it is out of output: keep waiting for the
\* file, close, or reset for the next request
SendFinishKind(c) ==
    IF c.mode = "FILECOPY" /\ web_client_has_wait_receive(c) /\ c.response_rlen # 0
       /\ c.response_rlen > Len(c.response_data)
    THEN "wait"
    ELSE IF ~web_client_has_keepalive(c) THEN "dead"
    ELSE "reset"

SendFinish(c) ==
    CASE SendFinishKind(c) = "wait" -> web_client_disable_wait_send(c)
      [] SendFinishKind(c) = "dead" -> WEB_CLIENT_IS_DEAD(c)
      [] OTHER -> web_client_request_done(c)

\* a cursor that is not moved by a deflate call
SentAfterDeflateStale(c) == c.response_sent

\* the bytes of the response body passed through the compressor after a
\* deflate call
SentAfterDeflate(c) == Len(c.response_data)

\* what one call of the send engine did: the bytes of each kind it wrote, in
\* the order fin, close, hdr, data; whether it ran the compressor, with which
\* flush and how many new input bytes; how it ended the response; how many
\* socket calls it made, which of them (by its ordinal) marked the client
\* DEAD and what that call returned
NoEvent == [fin |-> "", close |-> "", hdr |-> "", data |-> "", deflated |-> FALSE,
            flush |-> "", fed |-> 0, err |-> FALSE, end |-> "",
            ios |-> 0, dead_io |-> 0, errno |-> 0]

\* the event after `calls` more socket calls, the last of which was offered k
\* by the socket and returned `bytes`
IoCalled(ev, calls, bytes, k) ==
    [ev EXCEPT !.ios = @ + calls,
               !.dead_io = IF bytes < 0 THEN ev.ios + calls ELSE @,
               !.errno = IF bytes < 0 THEN k ELSE @]

\* a framing write whose failure is not looked at
FramingFailedIgnored(r) == FALSE

\* the t < 0 test after a framing write: the function returns at once
FramingFailed(r) == r.bytes < 0

\* web_client_send_deflate(w).  io.fin, io.close, io.hdr, io.data are what the
\* socket takes on the four sends, io.gen the compressor's output size.
\* The result names the bytes written and which framing was written.
web_client_send_deflate(c, io) ==
    LET NoFraming(cc) == [w |-> cc, bytes |-> 0, out |-> "", calls |-> 0, k |-> 0]
        Framed(ev, r) == IoCalled(ev, r.calls, r.bytes, r.k)
        \* the send of the compressed bytes that ends the function
        Data(cc, b, ev) ==
            [w |-> IF b > 0 THEN [cc EXCEPT !.sent_bytes = @ + b, !.zsent = @ + b]
                   ELSE IF b = 0 THEN cc
                   ELSE WEB_CLIENT_IS_DEAD(cc),
             ev |-> [IoCalled(ev, 1, b, io.data) EXCEPT
                        !.data = IF b > 0
                                 THEN SubSeq(cc.zbuffer, cc.zsent + 1, cc.zsent + b)
                                 ELSE ""]]
        SendData(cc, ev) == Data(cc, SendResult(cc.zhave - cc.zsent, io.data), ev)
        \* out of output data
        Finalized(f) ==
            IF FramingFailed(f) THEN [w |-> f.w, ev |-> Framed(NoEvent, f)]
            ELSE [w |-> SendFinish(f.w),
                  ev |-> [Framed(NoEvent, f) EXCEPT !.fin = f.out,
                                                     !.end = SendFinishKind(f.w)]]
        \* compress more input data
        Opened(h, ev) ==
            IF FramingFailed(h) THEN [w |-> h.w, ev |-> Framed(ev, h)]
            ELSE SendData(h.w, [Framed(ev, h) EXCEPT !.hdr = h.out])
        Compressed(c2, ev) ==
            Opened(web_client_send_chunk_header(c2, c2.zhave, io.hdr), ev)
        Deflated(c1, d, ev) ==
            IF d.err
            THEN [w |-> web_client_request_done(c1),
                  ev |-> [ev EXCEPT !.err = TRUE, !.end = "abandon"]]
            ELSE Compressed([d.w EXCEPT !.zhave = ZCHUNK - d.w.zstream_avail_out,
                                        !.zsent = 0,
                                        !.response_sent = SentAfterDeflate(d.w)],
                            [ev EXCEPT !.deflated = TRUE])
        Flushed(c1, flush, ev) ==
            Deflated(c1, deflate(c1, flush, io.gen), [ev EXCEPT !.flush = flush])
        Fed(cc, fed, ev) ==
            Flushed([cc EXCEPT !.zstream_avail_in = @ + fed],
                    DeflateFlush([cc EXCEPT !.zstream_avail_in = @ + fed]),
                    [ev EXCEPT !.fed = fed])
        Closed(cl) ==
            IF FramingFailed(cl) THEN [w |-> cl.w, ev |-> Framed(NoEvent, cl)]
            ELSE Fed(cl.w,
                     IF Len(cl.w.response_data) > cl.w.response_sent
                     THEN Len(cl.w.response_data) - cl.w.response_sent ELSE 0,
                     [Framed(NoEvent, cl) EXCEPT !.close = cl.out])
    IN  IF Len(c.response_data) - c.response_sent = 0 /\ c.zstream_avail_in = 0
           /\ c.zhave = c.zsent /\ c.zstream_avail_out # 0
        THEN Finalized(IF c.response_sent # 0 THEN web_client_send_chunk_finalize(c, io.fin)
                       ELSE NoFraming(c))
        ELSE IF c.zhave = c.zsent
        THEN Closed(IF c.response_sent # 0 THEN web_client_send_chunk_close(c, io.close)
                    ELSE NoFraming(c))
        ELSE SendData(c, NoEvent)

\* a - b in size_t: a negative difference wraps
SizeSub(a, b) == IF a >= b THEN a - b ELSE SIZE_WRAP + a - b

RECURSIVE Stale(_)
\* n bytes of whatever the memory past the content of a buffer holds
Stale(n) == IF n <= 0 THEN "" ELSE "?" \o Stale(n - 1)

\* the n bytes at offset `from` of a buffer whose content is `data`
BufferBytes(data, from, n) ==
    LET Bytes(inside) == SubSeq(data, from + 1, from + inside) \o Stale(n - inside)
    IN  Bytes(IF from < Len(data) THEN Min(n, Len(data) - from) ELSE 0)

\* a cursor that skips a byte at every send
SentAfterSendSkipping(sent, bytes) == sent + bytes + 1

\* the plain-mode cursor after a send of `bytes`
SentAfterSend(sent, bytes) == sent + bytes

\* web_client_send(w) for an uncompressed response
web_client_send_plain(c, k) ==
    LET Sent(bytes) ==
            [w |-> IF bytes > 0
                   THEN [c EXCEPT !.sent_bytes = @ + bytes,
                                  !.response_sent = SentAfterSend(@, bytes)]
                   ELSE IF bytes = 0 THEN c
                   ELSE WEB_CLIENT_IS_DEAD(c),
             ev |-> [IoCalled(NoEvent, 1, bytes, k) EXCEPT !.data =
                        IF bytes > 0
                        THEN BufferBytes(c.response_data, c.response_sent, bytes)
                        ELSE ""]]
        Left(left) ==
            IF left = 0
            THEN [w |-> SendFinish(c), ev |-> [NoEvent EXCEPT !.end = SendFinishKind(c)]]
            ELSE Sent(SendResult(left, k))
    IN  Left(SizeSub(Len(c.response_data), c.response_sent))

\* web_client_send(w)
web_client_send(c, io) ==
    IF c.zoutput THEN web_client_send_deflate(c, io) ELSE web_client_send_plain(c, io.data)

-----------------------------------------------------------------------------
(* Receive engine *)

\* a read that leaves the flags alone
FileDataArrivedUnflagged(c) == c

\* what web_client_read_file() does to the flags after a read that brought
\* bytes: there is something to send
FileDataArrived(c) == web_client_enable_wait_send(c)

\* the end of the file that leaves the descriptor of the file in ifd
FileDoneKeepingFd(c) == web_client_disable_wait_receive(c)

\* what web_client_read_file() does when read() reports the end of the file:
\* no more reads, and ifd is the socket again
FileDone(c) == [web_client_disable_wait_receive(c) EXCEPT !.ifd = c.ofd]

\* whether this call of web_client_read_file() closes the input file
ReadFileCloses(c, r) ==
    c.response_rlen > Len(c.response_data) /\ r = 0 /\ c.ifd # c.ofd

\* whether web_client_request_done() closes the input file
RequestDoneCloses(c) == c.mode = "FILECOPY" /\ c.ifd # c.ofd

\* a file that is never taken to be read whole
FileCompleteNever(c) == FALSE

\* w->response.rlen && w->response.data->len >= w->response.rlen
FileComplete(c) == c.response_rlen # 0 /\ Len(c.response_data) >= c.response_rlen

\* web_client_read_file(w); r is what read() returns when asked for the rest
\* of the file (r < 0: an error, r = 0: end of file)
web_client_read_file(c, r) ==
    LET Arrived(c1) ==
            IF FileComplete(c1)
            THEN web_client_disable_wait_receive(c1) ELSE c1
        Read(bytes) ==
            IF bytes > 0
            THEN Arrived(FileDataArrived(
                     [c EXCEPT !.response_data =
                                   @ \o SubSeq(FileBytes(c.response_rlen), Len(@) + 1,
                                               Len(@) + bytes)]))
            ELSE IF bytes = 0 THEN FileDone(c)
            ELSE WEB_CLIENT_IS_DEAD(c)
        Left(left) == Read(IF r < 0 THEN -1 ELSE Min(r, left))
    IN  IF c.response_rlen <= Len(c.response_data) THEN c
        ELSE Left(c.response_rlen - Len(c.response_data))

\* web_client_receive(w) on the socket; r.kind is what recv() does: "data"
\* (the bytes r.bytes), "eagain", "closed" (0 bytes) or "error"
web_client_receive(c, r) ==
    CASE r.kind = "data" -> [c EXCEPT !.received_bytes = @ + Len(r.bytes),
                                      !.response_data = @ \o r.bytes]
      [] r.kind = "eagain" -> web_client_enable_wait_receive(c)
      [] r.kind = "closed" -> c
      [] OTHER -> WEB_CLIENT_IS_DEAD(c)

-----------------------------------------------------------------------------
(* Timeouts and teardown *)

\* a deadline that is reached only when it is passed
TimeoutPassed(since_reception_ut, timeout_ut) == since_reception_ut > timeout_ut

\* since_reception_ut >= w->timings.timeout_ut
TimeoutReached(since_reception_ut, timeout_ut) == since_reception_ut >= timeout_ut

\* web_client_timeout_checkpoint_and_check(w) at time t: the client and
\* whether the query timed out
web_client_timeout_checkpoint_and_check(c, t) ==
    IF c.timeout_ut = 0 THEN [w |-> c, expired |-> FALSE]
    ELSE IF TimeoutReached(t - c.tv_in, c.timeout_ut)
    THEN [w |-> [c EXCEPT !.response_data = "Query timeout exceeded",
                          !.response_code = HTTP_RESP_GATEWAY_TIMEOUT],
          expired |-> TRUE]
    ELSE [w |-> c, expired |-> FALSE]

\* web_client_free(w)
web_client_free(c) == web_client_reset_allocations(c)

-----------------------------------------------------------------------------
(* The runs of the model: configurations, requests, collaborators *)

AllAcl == {"dashboard", "registry", "badges", "mgmt", "netdataconf", "stream"}

\* a plain-HTTP listener with every access right, compression allowed or
\* not; a listener that forces TLS, reached over a plain connection; and
\* plain-HTTP listeners whose clients have no access right, or only the
\* registry
Confs ==
    {[respect_dnt |-> FALSE, web_enable_gzip |-> gz, ssl_ctx |-> FALSE, ssl_conn |-> FALSE,
      ssl_force |-> FALSE, ssl_default |-> FALSE, unix |-> FALSE, acl |-> AllAcl]
        : gz \in BOOLEAN}
    \cup {[respect_dnt |-> FALSE, web_enable_gzip |-> FALSE, ssl_ctx |-> TRUE,
           ssl_conn |-> FALSE, ssl_force |-> TRUE, ssl_default |-> FALSE, unix |-> FALSE,
           acl |-> AllAcl]}
    \cup {[respect_dnt |-> FALSE, web_enable_gzip |-> FALSE, ssl_ctx |-> FALSE,
           ssl_conn |-> FALSE, ssl_force |-> FALSE, ssl_default |-> FALSE, unix |-> FALSE,
           acl |-> a] : a \in {{}, {"registry"}}}

KA == "Connection: keep-alive" \o CRLF
GZ == "Accept-Encoding: gzip" \o CRLF

Get(path, headers) == "GET " \o path \o " HTTP/1.1" \o CRLF \o headers \o CRLF
PostHead(n) == "POST /api/v2/data HTTP/1.1" \o CRLF \o "Content-Length: " \o DecStr(n)
               \o CRLF \o CRLF

\* the body of a data query, longer than the text of the timeout reply
LongBody == "abcdefghijklmnopqrstuvwx"

\* what the collaborators answer in a run: the API handlers (status, body,
\* the timeout the query asked for), open(), the host lookup, the stream
\* receiver
World(body, timeout) ==
    [api |-> [code |-> HTTP_RESP_OK, body |-> body, timeout |-> timeout],
     opened |-> "ok", host_found |-> TRUE, stream_code |-> HTTP_RESP_OK]

\* a run: the segments in which the request bytes arrive, and the world
Run(segments, body, timeout) == [net |-> segments, world |-> World(body, timeout)]

ApiRuns ==
    {Run(<<Get("/api/v1/info", h)>>, b, t) :
        h \in {"", KA}, b \in {"", "{}", LongBody}, t \in {0, 1}}
    \cup {Run(<<Get("/api/v1/info", h)>>, b, 0) : h \in {GZ, KA \o GZ}, b \in {"{}", "abcde"}}
    \cup {Run(<<Get("/api/v1/info", KA), Get("/api/v1/info", "")>>, "{}", 0)}
    \cup {Run(<<Get("/api/v1/info?x=1", "Host: h" \o CRLF)>>, "{}", 0)}

FileRuns ==
    {Run(<<Get(p, h)>>, "", 0) :
        p \in {"/index.html", "/a.js"}, h \in {"", KA, GZ, KA \o GZ}}
    \cup {Run(<<Get(p, h)>>, "", 0) : p \in {"/big.bin", "/nofile", "/d"}, h \in {"", KA}}
    \cup {[net |-> <<Get("/index.html", KA)>>, world |-> [World("", 0) EXCEPT !.opened = e]] :
             e \in {"EBUSY", "EACCES"}}
    \cup {Run(<<Get(p, KA)>>, "", 0) :
             p \in {"/a%20b", "/../index.html", "//d/..", "/v2/%2E%2E/index.html",
                    "/index.html..", "/a.js&x"}}
    \cup {Run(s, "{}", 0) :
             s \in {<<Get("/v1/v2/index.html", KA)>>,
                    <<Get("/v2//v2/", "")>>,
                    <<Get("/v0/v1/api/v1/info", KA)>>,
                    <<Get("/v1/index.html", KA), Get("/v2/index.html", KA)>>,
                    <<Get("/v2/x/v1", "")>>}}

PostRuns ==
    {Run(s, "{}", 0) :
        s \in {<<PostHead(5) \o "hello">>,
               <<PostHead(5), "hello">>,
               <<PostHead(5) \o "hel", "lo">>,
               <<PostHead(5), "hel", "lo">>,
               <<PostHead(5), "h", "e", "l", "l">>,
               <<"POST /api/v2/da", "ta HTTP/1.1" \o CRLF, "Content-Length: 5" \o CRLF,
                 CRLF, "hello">>}}

OtherRuns ==
    {Run(<<s>>, "{}", 0) :
        s \in {"BREW /coffee HTTP/1.1" \o CRLF \o CRLF,
               "OPTIONS / HTTP/1.1" \o CRLF \o GZ \o CRLF,
               Get("/", "") \o "X"}}
    \cup {Run(s, "{}", 0) :
             s \in {<<"BREW /coffee HTTP/1.1" \o CRLF \o KA \o CRLF>>,
                    <<"get / HTTP/1.1" \o CRLF \o CRLF>>,
                    <<"GE", "T / HTTP/1.1" \o CRLF \o CRLF>>,
                    <<Get("/api/v1/info", KA), "BREW /coffee HTTP/1.1" \o CRLF \o CRLF>>,
                    <<"GET / HTTP/1.1" \o CRLF, CRLF \o "X">>,
                    <<"GET / HTT", "P/1.1" \o CRLF \o CRLF \o "X">>,
                    <<"DELETE /api/v1/info HTTP/1.1" \o CRLF \o KA \o CRLF \o "XY">>,
                    <<"STREAM key=1&hostname=h HTTP/1.1" \o CRLF \o CRLF>>,
                    <<"STREAM key=1 HTT", "P/1.1" \o CRLF \o CRLF>>,
                    <<Get("/netdata.conf", KA)>>,
                    <<Get("", KA), Get("/api/v1/info", "")>>,
                    <<"DELETE /index.html HTTP/1.1" \o CRLF \o CRLF>>,
                    <<"PUT /netdata.conf HTTP/1.1" \o CRLF \o "Content-Length: 0"
                      \o CRLF \o CRLF>>,
                    <<Get("/api/v1/info", GZ \o GZ)>>,
                    <<"GET /api/v1/info HTTP/1.1" \o CRLF \o GZ \o "X: 1\r" \o CRLFCRLF,
                      CRLF>>}}

\* header padding
Filler == "aaaaaaaaaaaaaaaaaaaaaaaaaaaaaaaaaaaaaaaaaaaaaaaaaaaaaaaaaaaaaaaaaaaaaaaaaaaaaaaaaaaaaaaaaaaaaaaaaaaa"

\* a request that is complete at exactly n bytes
GetOfSize(n) == "GET / HTTP/1.1" \o CRLF \o "X: " \o SubSeq(Filler, 1, n - 23) \o CRLFCRLF

\* requests around NETDATA_WEB_REQUEST_MAX_SIZE: complete at the limit and one
\* byte over it, and still incomplete at the limit and one byte over it
SizeRuns ==
    {Run(s, "{}", 0) :
        s \in {<<GetOfSize(MAX_REQUEST)>>,
               <<GetOfSize(MAX_REQUEST + 1)>>,
               <<SubSeq(GetOfSize(MAX_REQUEST + 4), 1, MAX_REQUEST), CRLFCRLF>>,
               <<SubSeq(GetOfSize(MAX_REQUEST + 5), 1, MAX_REQUEST + 1)>>}}

\* a client that sends a first piece and then one byte at a time, for one
\* receive more than HTTP_REQ_MAX_HEADER_FETCH_TRIES
Slowly(first) == [i \in 1..(MAX_TRIES + 1) |-> IF i = 1 THEN first ELSE "a"]

\* slow clients: a head that never ends, one whose blank line follows a
\* stray CR, and one without the protocol
SlowRuns ==
    {Run(Slowly(first), "{}", 0) :
        first \in {"GET / HTTP/1.1" \o CRLF \o "X: ",
                   "GET / HTTP/1.1\r" \o CRLFCRLF,
                   "GET /x" \o CRLFCRLF}}

Runs == ApiRuns \cup FileRuns \cup PostRuns \cup OtherRuns \cup SizeRuns \cup SlowRuns

\* no call of the compressor yet
NoDeflate == [flush |-> "", mode |-> "", waiting |-> FALSE, full |-> FALSE]

\* the call of the compressor a call of the send engine made: the flush it
\* asked for, and the mode, the receive wait and the fill of the buffer then
DeflateCall(c, ev) ==
    [flush |-> ev.flush, mode |-> c.mode, waiting |-> web_client_has_wait_receive(c),
     full |-> Len(c.response_data) = c.response_rlen]

\* the statics of http_header_parse() and of web_client_process_url() at
\* program start
NoStatics == [http_header_parse |-> NoHashes(HeaderNames),
              web_client_process_url |-> NoHashes(UrlTokens)]

\* the single-threaded deployment: the worker initialises the statics it uses
OneThread == [statics |-> NoStatics, threads |-> <<>>]

\* the observations at the start of a connection
NoHistory ==
    [phase |-> "request", verdict |-> "NONE", seen |-> "", armed |-> TRUE, payload |-> "",
     validations |-> 0, head |-> "", data0 |-> "", mode |-> "GET", zoutput |-> FALSE,
     keepalive |-> FALSE, fin_early |-> FALSE, handed |-> 0, shorts |-> 0, end |-> "",
     io_error |-> FALSE, timed_out |-> FALSE, released |-> FALSE, file_open |-> FALSE,
     io_after_dead |-> FALSE, dead_io |-> 0, transient_dead |-> FALSE, file |-> NoFile,
     path |-> "", armed_send |-> FALSE, spawned |-> FALSE, chunked |-> FALSE, rlen |-> 0,
     tries |-> 0, deflated |-> NoDeflate]

Init ==
    /\ w = web_client_create
    /\ conf \in Confs
    /\ \E r \in Runs : net = r.net /\ world = r.world
    /\ wire = [head |-> "", body |-> ""]
    /\ now = 0
    /\ hist = NoHistory
    /\ mt = OneThread

-----------------------------------------------------------------------------
(* The readiness driver: it calls the engine when a wait flag is armed *)

Alive == ~hist.released /\ ~web_client_check_dead(w)

\* what recv() can do: hand over the next segment, fail, or report that the
\* peer closed once everything it sent was read
RecvChoices ==
    (IF net # <<>> THEN {[kind |-> "data", bytes |-> Head(net)]}
     ELSE {[kind |-> "eagain", bytes |-> ""], [kind |-> "closed", bytes |-> ""]})
    \cup {[kind |-> "error", bytes |-> ""]}

\* what the socket can take of a head
HeadChoices == {-1, 1, HeadRoom}

\* the socket is readable: web_client_receive(), then, when bytes came,
\* web_client_process_request(); when the peer closed, the driver
\* disconnects
Receive ==
    /\ Alive
    /\ web_client_has_wait_receive(w)
    /\ w.mode # "FILECOPY"
    /\ \E r \in RecvChoices, hdr \in HeadChoices :
          \E c1 \in {web_client_receive(w, r)} :
          \E pr \in {web_client_process_request(c1, conf, world, hdr, now)} :
              CASE r.kind = "data" ->
                    /\ w' = pr.w
                    /\ net' = Tail(net)
                    /\ wire' = IF pr.respond THEN [head |-> pr.out, body |-> ""] ELSE wire
                    /\ hist' = [hist EXCEPT
                                  !.phase = IF pr.respond THEN "response"
                                            ELSE IF pr.verdict = "INCOMPLETE" THEN "request"
                                            ELSE "handed over",
                                  !.verdict = pr.verdict,
                                  !.seen = c1.response_data,
                                  !.armed = web_client_has_wait_receive(pr.w),
                                  !.payload = pr.w.post_payload,
                                  !.validations = IF hist.phase = "request" THEN @ + 1 ELSE 1,
                                  !.head = IF pr.respond THEN pr.w.response_header_output
                                           ELSE @,
                                  !.data0 = IF pr.respond THEN pr.w.response_data ELSE @,
                                  !.mode = pr.w.mode,
                                  !.zoutput = pr.w.zoutput,
                                  !.keepalive = web_client_has_keepalive(pr.w),
                                  !.fin_early = FALSE, !.handed = 0, !.end = "",
                                  !.io_error = web_client_check_dead(pr.w),
                                  !.timed_out = FALSE,
                                  !.file_open = IF pr.respond THEN pr.opened ELSE @,
                                  !.file = pr.file,
                                  !.path = pr.w.url_path_decoded,
                                  !.armed_send = web_client_has_wait_send(pr.w),
                                  !.spawned = pr.spawned,
                                  !.chunked = web_client_flag_check(pr.w, "CHUNKED_TRANSFER"),
                                  !.rlen = pr.w.response_rlen,
                                  !.tries = c1.header_parse_tries + 1,
                                  !.deflated = NoDeflate]
                [] r.kind = "closed" ->
                    /\ w' = web_client_free(web_client_request_done(c1))
                    /\ hist' = [hist EXCEPT !.released = TRUE]
                    /\ UNCHANGED <<net, wire>>
                [] OTHER ->
                    /\ w' = c1
                    /\ hist' = [hist EXCEPT
                                  !.io_error = @ \/ web_client_check_dead(c1),
                                  !.transient_dead =
                                      @ \/ (r.kind = "eagain" /\ web_client_check_dead(c1))]
                    /\ UNCHANGED <<net, wire>>
    /\ UNCHANGED <<conf, world, now, mt>>

\* what read() can return: an error (-2 standing for EAGAIN, EWOULDBLOCK or
\* EINTR), the end of a file that shrank, one byte, or all that is left
ReadChoices == {-2, -1, 0, 1, BodyRoom}

\* the input file is readable: web_client_read_file()
ReadFile ==
    /\ Alive
    /\ web_client_has_wait_receive(w)
    /\ w.mode = "FILECOPY"
    /\ \E r \in ReadChoices :
          /\ w' = web_client_read_file(w, r)
          /\ hist' = [hist EXCEPT !.io_error = @ \/ web_client_check_dead(w'),
                                  !.file_open = @ /\ ~ReadFileCloses(w, r),
                                  !.transient_dead =
                                      @ \/ (r = -2 /\ web_client_check_dead(w'))]
    /\ UNCHANGED <<conf, world, net, wire, now, mt>>

\* what the socket can take of chunk framing: a failure, everything, or, a
\* bounded number of times, one byte only
FramingChoices == {-2, -1, BodyRoom} \cup (IF hist.shorts < MaxShorts THEN {1} ELSE {})

\* what the socket can take of body bytes
DataChoices == {-2, -1, 1, BodyRoom}

\* the outcomes of the system calls and of the compressor for one call of
\* web_client_send(): only the calls this invocation makes are enumerated
IoChoices ==
    LET one(f, cl, g, hd, d) == [fin |-> f, close |-> cl, gen |-> g, hdr |-> hd, data |-> d]
        fed == IF Len(w.response_data) > w.response_sent
               THEN Len(w.response_data) - w.response_sent ELSE 0
    IN  IF ~w.zoutput THEN {one(0, 0, 0, 0, d) : d \in DataChoices}
        ELSE IF Len(w.response_data) - w.response_sent = 0 /\ w.zstream_avail_in = 0
                /\ w.zhave = w.zsent /\ w.zstream_avail_out # 0
        THEN {one(f, 0, 0, 0, 0) : f \in IF w.response_sent # 0 THEN FramingChoices ELSE {0}}
        ELSE IF w.zhave = w.zsent
        THEN {one(0, cl, g, hd, d) :
                 cl \in IF w.response_sent # 0 THEN FramingChoices ELSE {0},
                 g \in GenChoices(w.zstream_avail_in + fed, w.zlib_pending,
                                  DeflateFlush(w), w.zlib_finished),
                 hd \in FramingChoices, d \in DataChoices}
        ELSE {one(0, 0, 0, 0, d) : d \in DataChoices}

\* whether a call of the send engine made a socket call on a client that was
\* DEAD: one that was DEAD before the call, or one an earlier socket call of
\* the same call had marked
IoAfterDead(ev, before) ==
    \/ web_client_check_dead(before) /\ ev.ios > 0
    \/ ev.dead_io # 0 /\ ev.ios > ev.dead_io

\* how many of the framing writes of a call were short
ShortWrites(ev) ==
    (IF ev.fin # "" /\ Len(ev.fin) < 7 THEN 1 ELSE 0)
    + (IF ev.close # "" /\ Len(ev.close) < 2 THEN 1 ELSE 0)
    + (IF ev.hdr # "" /\ Ch(ev.hdr, Len(ev.hdr)) # "\n" THEN 1 ELSE 0)

\* how many bytes the model follows on the wire of a response whose cursor
\* ran past the end of its buffer
MaxWire == 48

\* the socket is writable: web_client_send()
Send ==
    /\ Alive
    /\ web_client_has_wait_send(w)
    /\ w.response_sent <= Len(w.response_data) \/ Len(wire.body) < MaxWire
    /\ \E io \in IoChoices :
          \E r \in {web_client_send(w, io)} :
          \E ev \in {r.ev} :
              /\ w' = r.w
              /\ wire' = [wire EXCEPT !.body = @ \o ev.fin \o ev.close \o ev.hdr \o ev.data]
              /\ hist' = [hist EXCEPT
                            !.phase = IF ev.end \in {"dead", "reset", "abandon"}
                                      THEN "done" ELSE @,
                            !.end = IF ev.end \in {"dead", "reset", "abandon"}
                                    THEN ev.end ELSE @,
                            !.fin_early = @ \/ (ev.fin # "" /\ ev.end = "wait"),
                            !.handed = @ + ev.fed,
                            !.shorts = @ + ShortWrites(ev),
                            !.io_error = @ \/ (web_client_check_dead(r.w) /\ ev.end # "dead"),
                            !.file_open = @ /\ ~(ev.end \in {"reset", "abandon"}
                                                 /\ RequestDoneCloses(w)),
                            !.io_after_dead = @ \/ IoAfterDead(ev, w),
                            !.dead_io = ev.dead_io,
                            !.transient_dead = @ \/ (ev.dead_io # 0 /\ ev.errno = -2),
                            !.deflated = IF ev.flush # "" THEN DeflateCall(w, ev) ELSE @]
    /\ UNCHANGED <<conf, world, net, now, mt>>

\* a dead client is released by the driver
Release ==
    /\ ~hist.released
    /\ web_client_check_dead(w)
    /\ w' = web_client_free(w)
    /\ hist' = [hist EXCEPT !.released = TRUE]
    /\ UNCHANGED <<conf, world, net, wire, now, mt>>

\* a dead client goes back to the pool instead, and the next connection
\* takes it from there: web_client_reuse_from_cache(), then the set-up
Reuse ==
    /\ ~hist.released
    /\ web_client_check_dead(w)
    /\ w' = ClientAccepted(web_client_reuse_from_cache(w))
    /\ \E r \in Runs : net' = r.net /\ world' = r.world
    /\ wire' = [head |-> "", body |-> ""]
    /\ hist' = NoHistory
    /\ UNCHANGED <<conf, now, mt>>

\* the clock advances
Tick ==
    /\ now < MaxTime
    /\ now' = now + 1
    /\ UNCHANGED <<w, conf, world, net, wire, hist, mt>>

\* a driver tick of a client with a response in progress:
\* web_client_timeout_checkpoint_and_check()
TimeoutCheck ==
    /\ Alive
    /\ hist.phase = "response"
    /\ web_client_has_wait_send(w) \/ web_client_has_wait_receive(w)
    /\ \E r \in {web_client_timeout_checkpoint_and_check(w, now)} :
           /\ w' = r.w
           /\ hist' = [hist EXCEPT !.timed_out = @ \/ r.expired]
    /\ UNCHANGED <<conf, world, net, wire, now, mt>>

\* the engine under the driver contract: receive, process_request, send,
\* read_file, release or reuse
Next == Receive \/ ReadFile \/ Send \/ Release \/ Reuse

Spec == Init /\ [][Next]_vars

\* the same with a driver that keeps honouring armed wait flags; when the
\* peer sends, closes or fails is not the driver's to decide
FairSpec == Spec /\ WF_vars(ReadFile) /\ WF_vars(Send) /\ WF_vars(Release)

\* the same with a clock and the timeout check at driver ticks
NextT == Next \/ Tick \/ TimeoutCheck

TimeoutSpec == Init /\ [][NextT]_vars

-----------------------------------------------------------------------------
(* The multi-threaded deployments: two workers, each with its own client,   *)
(* in a function that initialises its static hashes at its first call       *)

\* what a worker is doing: parsing one header line of its client, or routing
\* the first segment of its client's path
HeaderJobs ==
    {[fn |-> "http_header_parse", name |-> l[1], value |-> l[2]] :
        l \in {<<"Connection", "keep-alive">>, <<"Accept-Encoding", "gzip">>,
                <<"Host", "h">>, <<"Origin", "o">>}}

UrlJobs ==
    {[fn |-> "web_client_process_url", name |-> t, value |-> ""] :
        t \in {"api", "netdata.conf", "host", "node", "v0", "v1", "v2", "index.html"}}

\* the number of worker threads
Workers == 2

\* a worker entering the function
Worker(job) ==
    [job |-> job, pc |-> "test", next |-> 1, c |-> web_client_create, branch |-> ""]

\* the names of the statics of a function, assigned in this order; the
\* function tests the first to know whether the others were assigned
StaticNames(fn) == IF fn = "http_header_parse" THEN HeaderNames ELSE UrlTokens

StaticValue(fn, n) == IF fn = "http_header_parse" THEN simple_uhash(n) ELSE simple_hash(n)

ThreadInit ==
    /\ w = web_client_create
    /\ conf \in {cf \in Confs : cf.web_enable_gzip}
    /\ world = World("", 0)
    /\ net = <<>>
    /\ wire = [head |-> "", body |-> ""]
    /\ now = 0
    /\ hist = NoHistory
    /\ \E jobs \in {HeaderJobs, UrlJobs} : \E js \in [1..Workers -> jobs] :
           mt = [statics |-> NoStatics, threads |-> [i \in 1..Workers |-> Worker(js[i])]]

\* if(unlikely(!hash_origin)), if(unlikely(!hash_api)): the unsynchronised
\* read of the first static
LazyInitTest(i) ==
    LET t == mt.threads[i]
        names == StaticNames(t.job.fn)
    IN  /\ t.pc = "test"
        /\ mt' = [mt EXCEPT !.threads[i].pc =
                      IF mt.statics[t.job.fn][names[1]] = 0 THEN "init" ELSE "use"]

\* one assignment of the initialisation, in program order
LazyInitAssign(i) ==
    LET t == mt.threads[i]
        names == StaticNames(t.job.fn)
    IN  /\ t.pc = "init"
        /\ mt' = [mt EXCEPT
                     !.statics[t.job.fn][names[t.next]] =
                         StaticValue(t.job.fn, names[t.next]),
                     !.threads[i].next = @ + 1,
                     !.threads[i].pc = IF t.next = Len(names) THEN "use" ELSE "init"]

\* the comparisons of the hash of the name with the statics, and the branch
\* they select
HashedDispatch(i) ==
    LET t == mt.threads[i]
        hs == mt.statics[t.job.fn]
    IN  /\ t.pc = "use"
        /\ mt' = [mt EXCEPT
                     !.threads[i].pc = "done",
                     !.threads[i].c =
                         IF t.job.fn = "http_header_parse"
                         THEN HeaderEffectWith(hs, t.c, conf, t.job.name, t.job.value, FALSE)
                         ELSE @,
                     !.threads[i].branch =
                         IF t.job.fn = "web_client_process_url"
                         THEN UrlBranch(hs, t.job.name) ELSE @]

ThreadStep(i) ==
    /\ i \in DOMAIN mt.threads
    /\ LazyInitTest(i) \/ LazyInitAssign(i) \/ HashedDispatch(i)
    /\ UNCHANGED <<w, conf, world, net, wire, now, hist>>

ThreadNext == \E i \in 1..Workers : ThreadStep(i)

ThreadSpec == ThreadInit /\ [][ThreadNext]_vars

-----------------------------------------------------------------------------
(* What the peer reads off the wire *)

\* t is the start of s
IsPrefix(t, s) == Len(t) <= Len(s) /\ SubSeq(s, 1, Len(t)) = t

IsHex(t) == t # "" /\ \A i \in 1..Len(t) : StrStr(HexDigits, 1, Ch(t, i)) # 0

RECURSIVE ParseHex(_, _)
\* the value of a string of hexadecimal digits
ParseHex(t, acc) ==
    IF t = "" THEN acc
    ELSE ParseHex(Tail(t), acc * 16 + (StrStr(HexDigits, 1, Ch(t, 1)) - 1))

RECURSIVE WellFormedChunked(_)
\* s is a chunked body: chunks of a size line, that many bytes and CRLF, then
\* the terminator 0 CRLF CRLF and nothing after it
WellFormedChunked(s) ==
    LET Sized(k, n) ==
            IF n = 0 THEN s = "0" \o CRLFCRLF
            ELSE /\ Len(s) >= k + n + 3
                 /\ SubSeq(s, k + n + 2, k + n + 3) = CRLF
                 /\ WellFormedChunked(From(s, k + n + 4))
        Line(k) ==
            /\ k > 1
            /\ IsHex(SubSeq(s, 1, k - 1))
            /\ Sized(k, ParseHex(SubSeq(s, 1, k - 1), 0))
    IN  Line(StrStr(s, 1, CRLF))

\* the request as the validator last saw it: where its head ends, the body
\* bytes after the head, the length the head announces
SeenHeadEnd == StrStr(hist.seen, 1, CRLFCRLF)
SeenBody == IF SeenHeadEnd = 0 THEN "" ELSE From(hist.seen, SeenHeadEnd + 4)
SeenAnnounced ==
    IF StrStr(hist.seen, 1, "Content-Length: ") = 0 THEN 0
    ELSE ParseDec(hist.seen, StrStr(hist.seen, 1, "Content-Length: ") + 16, 0)
SeenUpload ==
    /\ hist.validations > 0
    /\ StartsAt(hist.seen, 1, "POST ") \/ StartsAt(hist.seen, 1, "PUT ")
    /\ SeenHeadEnd # 0

\* output is pending: bytes of the body not sent yet, compressed bytes not
\* sent yet, or input that remains to be compressed
OutputPending(c) ==
    IF c.zoutput
    THEN c.zsent < c.zhave \/ Len(c.response_data) > c.response_sent
         \/ c.zstream_avail_in > 0
    ELSE c.response_sent < Len(c.response_data)

\* a response is in progress on a live client
Responding == hist.phase = "response" /\ Alive

-----------------------------------------------------------------------------
(* Claims *)

\* a plain response with a body, not copied from a file
PlainBodyCase ==
    /\ hist.phase \in {"response", "done"}
    /\ hist.mode # "FILECOPY"
    /\ ~hist.zoutput
    /\ hist.data0 # ""

\* the whole body is on the wire and the connection was ended as keep-alive
\* asks
PlainBodyDelivered ==
    /\ PlainBodyCase
    /\ hist.phase = "done"
    /\ wire.body = hist.data0
    /\ hist.end = IF hist.keepalive THEN "reset" ELSE "dead"

\* the socket failed, or the peer went away
ConnectionFailed == hist.io_error \/ (hist.released /\ hist.phase # "done")

\* what is on the wire is the start of the body, in buffer order, each byte
\* once; a response that is over delivered all of it
PlainBodyInOrder ==
    PlainBodyCase =>
        /\ IsPrefix(wire.body, hist.data0)
        /\ Alive /\ hist.phase = "response" => Len(wire.body) = w.response_sent
        /\ hist.phase = "done" => PlainBodyDelivered

FilecopyCase == hist.phase = "response" /\ hist.mode = "FILECOPY"

FilecopyTerminated ==
    \/ hist.phase = "done"
    \/ web_client_check_dead(w)
    \/ hist.released
    \/ ~web_client_has_wait_receive(w) /\ ~web_client_has_wait_send(w)

\* C2: a file copy of any size, the empty file included, and any split of the
\* file into reads, terminates under a fair driver: the client reaches
\* web_client_request_done, or DEAD, or has both wait flags disarmed.
C2_FilecopyTerminates == [](FilecopyCase => <>FilecopyTerminated)

\* C2, as a property of states: a file copy in progress with a wait flag
\* armed is never in a state where no engine call the driver can make
\* changes anything.
C2_FilecopyNeverStuck ==
    (FilecopyCase /\ Alive /\ ~FilecopyTerminated) =>
        \/ /\ web_client_has_wait_receive(w)
           /\ \E r \in ReadChoices : web_client_read_file(w, r) # w
        \/ /\ web_client_has_wait_send(w)
           /\ \E io \in IoChoices : web_client_send(w, io).w # w

\* C3: the bytes a compressed response wrote after its head are a well-formed
\* chunked body: chunks, then one terminator and nothing after it.
C3_ChunkedWellFormed ==
    (/\ hist.zoutput
     /\ hist.phase = "done"
     /\ hist.end \in {"dead", "reset"}
     /\ ~hist.io_error)
        => WellFormedChunked(wire.body)

\* C4: in a compressed file copy the terminating chunk is never on the wire
\* while WAIT_RECEIVE is armed and the file has bytes that were not read.
C4_TerminatorOnlyAtEnd ==
    (/\ Responding
     /\ hist.zoutput
     /\ hist.mode = "FILECOPY"
     /\ StrStr(wire.body, 1, CRLF \o "0" \o CRLFCRLF) # 0)
        => ~(web_client_has_wait_receive(w) /\ Len(w.response_data) < w.response_rlen)

\* C5: a body byte is on the wire only after every byte of the composed
\* header_output; no body byte follows a truncated head.
C5_HeadBeforeBody ==
    (hist.phase \in {"response", "done"} /\ wire.body # "") => wire.head = hist.head

\* C6: on a validator invocation that sees the complete head of a POST or PUT
\* and less than the announced body the verdict is Incomplete and
\* WAIT_RECEIVE stays armed; when the body is complete the verdict is Ok and
\* the payload is the whole body.
C6_UploadIncompleteThenOk ==
    SeenUpload =>
        /\ Len(SeenBody) < SeenAnnounced => hist.verdict = "INCOMPLETE" /\ hist.armed
        /\ Len(SeenBody) = SeenAnnounced =>
               hist.verdict = "OK" /\ hist.payload = SeenBody

\* C7: the validation of a request whose announced body has not fully arrived
\* ends only with TooManyReadRetries, with WAIT_RECEIVE disarmed.
C7_ShortBodyEndsInTooManyRetries ==
    (SeenUpload /\ Len(SeenBody) < SeenAnnounced /\ hist.verdict # "INCOMPLETE")
        => hist.verdict = "TOO_MANY_READ_RETRIES" /\ ~hist.armed

\* C8 as stated: while a response is in progress WAIT_SEND is armed if and
\* only if output is pending.
C8_WaitSendIffPending ==
    Responding => (web_client_has_wait_send(w) <=> OutputPending(w))

\* C8 amended: while a response is in progress WAIT_SEND is armed whenever
\* output is pending (it stays armed for the call that ends the response).
C8_WaitSendWhenPending ==
    Responding => (OutputPending(w) => web_client_has_wait_send(w))

\* C8 witness: bytes read from a file are pending and WAIT_SEND is armed
C8_Witness ==
    /\ Responding
    /\ hist.mode = "FILECOPY"
    /\ Len(w.response_data) > 0
    /\ OutputPending(w)
    /\ web_client_has_wait_send(w)

\* C9: in an uncompressed response, response.sent <= response.data.len in
\* every state, whatever process_request, send, read_file and the timeout
\* check did.
C9_SentWithinData ==
    (~hist.released /\ ~w.zoutput) => w.response_sent <= Len(w.response_data)

CompressionConsistent(c) ==
    /\ c.zoutput => c.zinitialized
    /\ c.zinitialized => "CHUNKED_TRANSFER" \in c.flags

\* C11: in every state the driver sees between engine calls, zoutput implies
\* zinitialized and zinitialized implies CHUNKED_TRANSFER: after
\* web_client_enable_deflate, web_client_request_done, a compression failure
\* and web_client_reuse_from_cache.
C11_CompressionFlagsConsistent == ~hist.released => CompressionConsistent(w)

\* C11 witness: a compressed response ended and web_client_request_done
\* released the compressor of a client that stays connected
C11_Witness ==
    /\ hist.zoutput
    /\ hist.phase = "done"
    /\ hist.end \in {"reset", "abandon"}
    /\ Alive
    /\ ~w.zoutput /\ ~w.zinitialized /\ "CHUNKED_TRANSFER" \notin w.flags

\* C12: in every state the driver sees, ifd == ofd unless the mode is
\* FILECOPY and the input file mysendfile opened is still open; so ifd == ofd
\* after a failed open, after read() reported the end of the file and after
\* web_client_request_done.
C12_DescriptorsAliased ==
    (~hist.released /\ w.ifd # w.ofd) => (w.mode = "FILECOPY" /\ hist.file_open)

\* C12 witness: a file copy whose read() reported the end of the file before
\* the announced size came: the file is closed and ifd is the socket again
C12_Witness ==
    /\ Responding
    /\ hist.mode = "FILECOPY"
    /\ w.mode = "FILECOPY"
    /\ Len(w.response_data) < w.response_rlen
    /\ ~hist.file_open
    /\ w.ifd = w.ofd

SentBytesAreWireBytes ==
    (/\ ~hist.released
     /\ hist.phase = "response" \/ (hist.phase = "done" /\ hist.end = "dead"))
        => w.sent_bytes = Len(wire.head) + Len(wire.body)

\* a step of a response does not lower the count
SentBytesStep ==
    (hist'.phase = "response" /\ ~hist'.released) => w'.sent_bytes >= w.sent_bytes

\* C15: within a request statistics.sent_bytes never decreases and is the sum
\* of the positive results of the socket writes made for it: the head, the
\* chunk headers, closes and terminator, and the body bytes.
C15_SentBytesCounted == []SentBytesAreWireBytes /\ [][SentBytesStep]_vars

\* C15 witness: a compressed response that wrote a partial head, framing and
\* body bytes, all of them counted
C15_Witness ==
    /\ Responding
    /\ hist.zoutput
    /\ Len(wire.head) = 1
    /\ Len(wire.body) > 4
    /\ w.sent_bytes = Len(wire.head) + Len(wire.body)

\* C16: a socket receive, a socket send of body bytes or chunk framing, or a
\* file read that fails with EAGAIN, EWOULDBLOCK or EINTR never marks the
\* client DEAD.
C16_TransientIsNotAnError == ~hist.transient_dead

\* a client that can take a request: empty buffers, no trace of a response
ReadyForNextRequest(c) ==
    /\ c.url_as_received = "" /\ c.url_path_decoded = ""
    /\ c.url_query_string_decoded = ""
    /\ c.response_data = "" /\ c.response_header = "" /\ c.response_header_output = ""
    /\ c.mode = "GET"
    /\ c.flags \cap (PathFlags \cup {"KEEPALIVE", "DONOTTRACK", "TRACKING_REQUIRED"}) = {}
    /\ c.response_sent = 0 /\ c.response_rlen = 0 /\ c.response_code = 0
    /\ ~c.zoutput /\ ~c.response_has_cookies
    /\ c.header_parse_tries = 0 /\ c.header_parse_last_size = 0
    /\ web_client_has_wait_receive(c) /\ ~web_client_has_wait_send(c)

\* C14: after web_client_request_done the six buffers are empty, the mode is
\* GET, the path flags, KEEPALIVE, DONOTTRACK and TRACKING_REQUIRED are
\* cleared, response.sent, rlen, code, zoutput and has_cookies are zero, the
\* header-parse tries and last size are 0, WAIT_RECEIVE is armed and WAIT_SEND
\* disarmed: where the send engine called it, and if it were called in any
\* other state of a client, also one whose request set the tracking flags
\* and cookies.
C14_RequestDoneResets ==
    /\ (hist.phase = "done" /\ hist.end \in {"reset", "abandon"} /\ Alive)
           => ReadyForNextRequest(w)
    /\ ~hist.released => ReadyForNextRequest(web_client_request_done(w))
    /\ ~hist.released =>
           ReadyForNextRequest(web_client_request_done(
               [w EXCEPT !.flags = @ \cup {"DONOTTRACK", "TRACKING_REQUIRED"},
                         !.response_has_cookies = TRUE]))

\* C14 witness: a file was served with keep-alive and the client was reset
C14_Witness ==
    /\ hist.phase = "done"
    /\ hist.end = "reset"
    /\ hist.mode = "FILECOPY"
    /\ hist.keepalive
    /\ wire.body # ""
    /\ Alive
    /\ ReadyForNextRequest(w)

\* C17: when deflate reports a stream error the client is marked DEAD and the
\* request is abandoned: nothing more is sent for it and the client is not
\* left armed to receive a next request.
C17_CompressionFailureKills ==
    (hist.phase = "done" /\ hist.end = "abandon" /\ ~hist.released)
        => /\ web_client_check_dead(w)
           /\ ~web_client_has_wait_receive(w)
           /\ ~web_client_has_wait_send(w)

\* C18: when the response code is HTTP_RESP_HTTPS_UPGRADE the head that
\* web_client_build_http_header writes has a status line with the status code
\* 301 and the header Location: https://<server_host><url_as_received>, and
\* response.code is 301 afterwards.
C18_HttpsUpgradeHead ==
    (hist.verdict = "REDIRECT" /\ hist.phase = "response" /\ ~hist.released)
        => /\ IsPrefix("HTTP/1.1 301 ", hist.head)
           /\ StrStr(hist.head, 1,
                     CRLF \o "Location: https://" \o w.server_host \o w.url_as_received
                          \o CRLF) # 0
           /\ w.response_code = HTTP_RESP_MOVED_PERM

\* the method tokens web_client_valid_method() knows, each with its space
MethodTokens == {"GET ", "OPTIONS ", "POST ", "PUT ", "DELETE ", "STREAM "}

\* the request the validator last saw does not begin with a method token
SeenBadMethod ==
    /\ hist.validations > 0
    /\ hist.phase # "handed over"
    /\ \A t \in MethodTokens : ~StartsAt(hist.seen, 1, t)

\* C19: when the request line does not begin with GET, OPTIONS, POST, PUT,
\* DELETE or STREAM and a space, the verdict is NotSupported and WAIT_RECEIVE
\* is disarmed, the response is a 400, and when it has been sent the client
\* is DEAD, never reset for keep-alive.
C19_BadMethodNotSupported ==
    SeenBadMethod =>
        /\ hist.verdict = "NOT_SUPPORTED"
        /\ ~hist.armed
        /\ hist.phase \in {"response", "done"}
        /\ IsPrefix("HTTP/1.1 400 Bad Request" \o CRLF, hist.head)
        /\ ~hist.keepalive
        /\ hist.phase = "done" =>
               hist.end = "dead" /\ (~hist.released => web_client_check_dead(w))

\* C19 witness: a request with an unknown method that asked for keep-alive
\* was answered, on a connection that had served a request before or not,
\* and the client is DEAD
C19_Witness ==
    /\ SeenBadMethod
    /\ StrStr(hist.seen, 1, KA) # 0
    /\ hist.phase = "done"
    /\ wire.body = "HTTP method requested is not supported..." \o CRLF
    /\ web_client_check_dead(w)
    /\ ~hist.released

\* the request the validator last saw has no body (it is not a POST or PUT)
\* and holds bytes after the CRLF CRLF that ends its head
SeenExcess ==
    /\ hist.validations > 0
    /\ \E t \in MethodTokens \ {"POST ", "PUT "} : StartsAt(hist.seen, 1, t)
    /\ SeenHeadEnd # 0
    /\ SeenBody # ""

\* C20: for a request without a body, whenever the receive buffer holds bytes
\* after the CRLF CRLF that ends the head, the verdict is ExcessRequestData
\* and the answer a 400, however the bytes were split across receives.
C20_ExcessDataRejected ==
    SeenExcess =>
        /\ hist.verdict = "EXCESS_REQUEST_DATA"
        /\ IsPrefix("HTTP/1.1 400 Bad Request" \o CRLF, hist.head)

\* the request the validator last saw was answered with the 400 "too big"
AnsweredTooBig ==
    /\ hist.phase \in {"response", "done"}
    /\ IsPrefix("HTTP/1.1 400 Bad Request" \o CRLF, hist.head)
    /\ IsPrefix("Received request is too big", hist.data0)

\* C21: a request of exactly NETDATA_WEB_REQUEST_MAX_SIZE accumulated bytes
\* is not rejected for its size, and one of NETDATA_WEB_REQUEST_MAX_SIZE + 1
\* bytes is answered with the 400 "too big", complete or not.
C21_SizeLimit ==
    hist.validations > 0 =>
        /\ Len(hist.seen) = MAX_REQUEST => ~AnsweredTooBig
        /\ Len(hist.seen) = MAX_REQUEST + 1 => AnsweredTooBig

\* a name holds a character outside [A-Za-z0-9/._-], or two dots in a row
BadFilename(f) ==
    \/ \E k \in 1..Len(f) : Ch(f, k) \notin {"/", ".", "_", "-"} /\ StrStr(AlnumChars, 1, Ch(f, k)) = 0
    \/ \E k \in 1..(Len(f) - 1) : Ch(f, k) = "." /\ Ch(f, k + 1) = "."

\* the static-file responder left the file system alone for the last request
FileUntouched ==
    /\ ~hist.file.looked
    /\ ~hist.file_open
    /\ hist.mode # "FILECOPY"
    /\ ~hist.released => w.mode # "FILECOPY" /\ w.ifd = w.ofd

\* C22 as stated: every bad name given to the static-file responder is
\* answered with 400 and neither stat()ed nor opened.
C22_BadPathsRejected ==
    (hist.file.called /\ BadFilename(hist.file.name)) =>
        /\ FileUntouched
        /\ IsPrefix("HTTP/1.1 400 Bad Request" \o CRLF, hist.head)

\* C22: the static-file responder never stats or opens a file for a name
\* that, after its leading slashes, holds a character outside [A-Za-z0-9/._-]
\* or the substring "..": the mode stays non-FILECOPY and ifd = ofd, and the
\* answer is 400 for a client that may access the dashboard, 403 for one
\* that may not.
C22_BadPathsNeverOpened ==
    (hist.file.called /\ BadFilename(hist.file.name)) =>
        /\ FileUntouched
        /\ IsPrefix(IF "dashboard" \in conf.acl THEN "HTTP/1.1 400 Bad Request" \o CRLF
                    ELSE "HTTP/1.1 403 Forbidden" \o CRLF, hist.head)

\* C22 witness: a name with two dots below a dashboard version was refused
\* with 400 on a keep-alive connection and the response is on its way
C22_Witness ==
    /\ hist.file.called
    /\ hist.file.name = "../index.html"
    /\ "PATH_IS_V2" \in w.flags
    /\ "dashboard" \in conf.acl
    /\ w.response_code = HTTP_RESP_BAD_REQUEST
    /\ wire.body = "Relative filenames are not supported"

VersionFlags == {"PATH_IS_V0", "PATH_IS_V1", "PATH_IS_V2"}
VersionSegments == {"v0", "v1", "v2"}

\* the segment that sets a version flag
SegmentOf(flag) ==
    CASE flag = "PATH_IS_V0" -> "v0" [] flag = "PATH_IS_V1" -> "v1" [] OTHER -> "v2"

\* the last request was given to the router
Routed ==
    /\ hist.verdict = "OK"
    /\ hist.mode \notin {"STREAM", "OPTIONS"}
    /\ AnyAcl(conf)

\* the first two segments of the path of the last request
FirstSegment == strsep_skip_consecutive_separators(Ptr(hist.path), {"/", "?"})
SecondSegment == strsep_skip_consecutive_separators(FirstSegment.rest, {"/", "?"})

\* the path of the last request has `seg` between slashes
HasSegment(seg) ==
    \E k \in 1..Len(hist.path) :
        /\ Ch(hist.path, k) = "/"
        /\ StartsAt(hist.path, k + 1, seg)
        /\ Ch(hist.path, k + 1 + Len(seg)) \in {"", "/", "?"}

AnsweredMultipleVersions ==
    /\ IsPrefix("HTTP/1.1 400 Bad Request" \o CRLF, hist.head)
    /\ hist.data0 = "Multiple dashboard versions given at the URL."

\* C23: a version segment met after a version was recorded gives the 400
\* "Multiple dashboard versions given at the URL."; at most one of
\* PATH_IS_V0, PATH_IS_V1 and PATH_IS_V2 is set on a client, and only one
\* the path of the current request names.
C23_OneDashboardVersion ==
    /\ Cardinality(w.flags \cap VersionFlags) <= 1
    /\ \A f \in w.flags \cap VersionFlags : Routed /\ HasSegment(SegmentOf(f))
    /\ (Routed /\ FirstSegment.tok \in VersionSegments
               /\ SecondSegment.tok \in VersionSegments) => AnsweredMultipleVersions
    /\ (Routed /\ AnsweredMultipleVersions) =>
           Cardinality({k \in 1..Len(hist.path) :
                           \E seg \in VersionSegments :
                               /\ Ch(hist.path, k) = "/"
                               /\ StartsAt(hist.path, k + 1, seg)
                               /\ Ch(hist.path, k + 1 + Len(seg)) \in {"", "/", "?"}}) >= 2

\* C23 witness: the second version segment of a path was refused, the first
\* version being the one recorded
C23_Witness ==
    /\ Routed
    /\ hist.path = "/v1/v2/index.html"
    /\ AnsweredMultipleVersions
    /\ w.flags \cap VersionFlags = {"PATH_IS_V1"}
    /\ wire.body = hist.data0

\* access control denies the last request: a STREAM without the stream
\* right, another request without any of the five rights, netdata.conf
\* without its right, a file without the dashboard right
Denied ==
    /\ hist.verdict = "OK"
    /\ \/ hist.mode = "STREAM" /\ "stream" \notin conf.acl
       \/ hist.mode # "STREAM" /\ ~AnyAcl(conf)
       \/ Routed /\ FirstSegment.tok = "netdata.conf" /\ "netdataconf" \notin conf.acl
       \/ Routed /\ hist.file.called /\ "dashboard" \notin conf.acl

\* C24: a validated request that access control denies gets code 403 and
\* the permission-denied body, web_client_process_request sends the 403 head
\* and arms WAIT_SEND for the body.
C24_DeniedIsSent ==
    Denied =>
        /\ hist.phase \in {"response", "done"}
        /\ IsPrefix("HTTP/1.1 403 Forbidden" \o CRLF, hist.head)
        /\ hist.data0 = "You are not allowed to access this resource."
        /\ hist.armed_send

\* C25: a STREAM request on a connection without TLS while TLS is forced
\* is never validated as OK: the verdict is NotSupported, WAIT_RECEIVE is
\* disarmed and the streaming receiver is not spawned.
C25_StreamNeedsTls ==
    (hist.validations > 0 /\ StartsAt(hist.seen, 1, "STREAM ")
     /\ ~conf.ssl_conn /\ conf.ssl_force) =>
        /\ hist.verdict \in {"NOT_SUPPORTED"}
        /\ ~hist.armed
        /\ ~hist.spawned
        /\ hist.phase # "handed over"
        /\ IsPrefix("HTTP/1.1 400 Bad Request" \o CRLF, hist.head)

\* C25 witness: such a STREAM request was refused and the refusal sent
C25_Witness ==
    /\ hist.seen = "STREAM key=1&hostname=h HTTP/1.1" \o CRLF \o CRLF
    /\ conf.ssl_force /\ ~conf.ssl_conn
    /\ hist.verdict = "NOT_SUPPORTED"
    /\ hist.mode = "STREAM"
    /\ hist.phase = "done"

\* the deadline of the request of client c is reached at time t
DeadlineReached(c, t) == c.timeout_ut # 0 /\ t - c.tv_in >= c.timeout_ut

\* what web_client_timeout_checkpoint_and_check() does when called now
TimeoutCheckAsStated ==
    LET Stated(r) ==
            /\ r.expired = DeadlineReached(w, now)
            /\ r.expired => /\ r.w.response_data = "Query timeout exceeded"
                            /\ r.w.response_code = HTTP_RESP_GATEWAY_TIMEOUT
            /\ ~r.expired => /\ r.w.response_data = w.response_data
                             /\ r.w.response_code = w.response_code
    IN  Stated(web_client_timeout_checkpoint_and_check(w, now))

\* a driver tick that reports the timeout
TimeoutReportedStep ==
    (hist'.timed_out /\ ~hist.timed_out) =>
        /\ DeadlineReached(w, now)
        /\ w'.response_data = "Query timeout exceeded"
        /\ w'.response_code = HTTP_RESP_GATEWAY_TIMEOUT

\* C26: web_client_timeout_checkpoint_and_check returns true exactly when
\* timeout_ut is non-zero and the time since tv_in is at least timeout_ut;
\* then the body is the timeout message and the code 504; otherwise body and
\* code are unchanged.
C26_TimeoutCheck ==
    /\ []TimeoutCheckAsStated
    /\ [][TimeoutReportedStep]_vars

\* C26 witness: the check fired at the very tick the deadline was reached,
\* on a response whose body was longer than the message
C26_Witness ==
    /\ hist.timed_out
    /\ now - w.tv_in = w.timeout_ut
    /\ hist.data0 = LongBody
    /\ w.response_data = "Query timeout exceeded"
    /\ w.response_code = HTTP_RESP_GATEWAY_TIMEOUT

\* a client that kept the accounting pointer, the use count and the TLS
\* handle of c, holds six empty buffers and is zero everywhere else, with no
\* descriptor
ReusedClient(c) ==
    [ mode |-> "GET", flags |-> {}, ifd |-> NO_FD, ofd |-> NO_FD,
      url_as_received |-> "", url_path_decoded |-> "", url_query_string_decoded |-> "",
      response_data |-> "", response_content_type |-> "CT_TEXT_PLAIN",
      response_no_cacheable |-> FALSE,
      response_header |-> "", response_header_output |-> "",
      use_count |-> c.use_count, memory_accounting |-> c.memory_accounting, ssl |-> c.ssl,
      post_payload |-> "", post_payload_size |-> 0,
      origin |-> "", user_agent |-> "", auth_bearer_token |-> "",
      server_host |-> "", forwarded_host |-> "",
      header_parse_tries |-> 0, header_parse_last_size |-> 0,
      response_code |-> 0, response_rlen |-> 0, response_sent |-> 0,
      response_has_cookies |-> FALSE,
      zoutput |-> FALSE, zinitialized |-> FALSE, zhave |-> 0, zsent |-> 0, zbuffer |-> "",
      zstream_avail_in |-> 0, zstream_avail_out |-> 0,
      zstream_total_in |-> 0, zstream_total_out |-> 0,
      zlib_pending |-> 0, zlib_finished |-> FALSE, zlib_inits |-> 0,
      received_bytes |-> 0, sent_bytes |-> 0,
      tv_in |-> 0, tv_ready |-> 0, timeout_ut |-> 0 ]

\* web_client_reuse_from_cache() called on the client as it is now
ReuseAsStated == ~hist.released => web_client_reuse_from_cache(w) = ReusedClient(w)

\* the step in which a dead client goes through the cache to the next
\* connection
ReuseStep ==
    (web_client_check_dead(w) /\ ~hist.released /\ ~hist'.released /\ hist' = NoHistory) =>
        w' = [ReusedClient(w) EXCEPT !.ifd = SOCK_FD, !.ofd = SOCK_FD,
                                     !.flags = {"WAIT_RECEIVE"}]

\* C27: web_client_reuse_from_cache keeps the six buffers, emptied, the
\* memory-accounting pointer, use_count and the TLS handle, and resets every
\* other field to zero (mode GET, no flags, counters and timings 0), with
\* ifd = ofd = -1.
C27_ReuseFromCache == []ReuseAsStated /\ [][ReuseStep]_vars

\* C27 witness: a client about to be reused that served a compressed
\* keep-alive response and died in the middle of it
C27_Witness ==
    /\ web_client_check_dead(w) /\ ~hist.released
    /\ w.zoutput /\ w.zinitialized /\ web_client_has_keepalive(w)
    /\ w.response_sent > 0 /\ w.sent_bytes > 0 /\ w.received_bytes > 0
    /\ w.url_as_received # "" /\ w.response_header_output # ""
    /\ w.use_count = 1

\* the head of the last response has a line that starts with `line`
HeadHas(line) == StrStr(hist.head, 1, CRLF \o line) # 0

\* C28: the head built by web_client_build_http_header has Content-Encoding:
\* gzip iff zoutput, Transfer-Encoding: chunked iff CHUNKED_TRANSFER,
\* otherwise Content-Length iff data.len > 0 or rlen > 0, with data.len when
\* non-zero else rlen; with neither, KEEPALIVE is cleared.
C28_TransferFraming ==
    (hist.phase \in {"response", "done"} /\ hist.head # "") =>
        /\ HeadHas("Content-Encoding: gzip" \o CRLF) <=> hist.zoutput
        /\ HeadHas("Transfer-Encoding: chunked" \o CRLF) <=> hist.chunked
        /\ HeadHas("Content-Length: ") <=>
               (~hist.chunked /\ (Len(hist.data0) > 0 \/ hist.rlen > 0))
        /\ HeadHas("Content-Length: ") =>
               HeadHas("Content-Length: "
                       \o DecStr(IF Len(hist.data0) > 0 THEN Len(hist.data0) ELSE hist.rlen)
                       \o CRLF)
        /\ (~hist.chunked /\ Len(hist.data0) = 0 /\ hist.rlen = 0) => ~hist.keepalive

\* C28 witness: a keep-alive request whose answer has no body and no known
\* length: no framing header, and keep-alive is off
C28_Witness ==
    /\ hist.phase \in {"response", "done"}
    /\ StrStr(hist.seen, 1, KA) # 0
    /\ hist.verdict = "OK"
    /\ hist.head # ""
    /\ ~HeadHas("Content-Length: ") /\ ~HeadHas("Transfer-Encoding: chunked" \o CRLF)
    /\ Len(hist.data0) = 0 /\ hist.rlen = 0
    /\ ~hist.keepalive

\* C29: after every web_client_request_done, statistics.received_bytes and
\* statistics.sent_bytes are 0, whatever the request was, also one for which
\* no URL was recorded.
C29_CountersPerRequest ==
    (hist.phase = "done" /\ hist.end \in {"reset", "abandon"} /\ Alive) =>
        w.received_bytes = 0 /\ w.sent_bytes = 0

-----------------------------------------------------------------------------
(* C31: the flush asked of the compressor *)

\* the input of the compressor is final
InputIsFinal(d) ==
    d.mode # "FILECOPY" \/ (d.mode = "FILECOPY" /\ ~d.waiting /\ d.full)

\* C31: web_client_send_deflate asks the compressor for Z_FINISH for every
\* response that is not a file copy, whatever its mode, and for a file copy
\* exactly when WAIT_RECEIVE is disarmed and data.len = rlen; otherwise it
\* asks for Z_SYNC_FLUSH
C31_FinishWhenInputIsFinal ==
    hist.deflated.flush # "" =>
        (hist.deflated.flush = "Z_FINISH" <=> InputIsFinal(hist.deflated))

-----------------------------------------------------------------------------
(* C32: compression is set up once per request *)

\* the request was validated more than once and its Accept-Encoding header
\* was parsed by each invocation (the blank line after the stray CR is not
\* seen by the first), or it names Accept-Encoding more than once
HeadersParsedAgain ==
    \/ hist.validations >= 2 /\ StrStr(hist.seen, 1, GZ \o "X: 1\r" \o CRLFCRLF) > 0
    \/ StrStr(hist.seen, 1, GZ \o GZ) > 0

\* C32: compression is initialised at most once per request and only while
\* response.sent = 0: web_client_enable_deflate changes nothing when
\* zinitialized is already true or when some response byte has been sent, so
\* repeated Accept-Encoding headers and the headers parsed again by a later
\* invocation of the validator do not set up the deflate state again
C32_DeflateInitialisedOnce ==
    /\ w.zlib_inits <= 1
    /\ w.zinitialized <=> w.zlib_inits = 1
    /\ (w.zinitialized \/ w.response_sent # 0) => web_client_enable_deflate(w) = w

C32_Witness ==
    /\ HeadersParsedAgain
    /\ w.zinitialized
    /\ w.zlib_inits = 1

-----------------------------------------------------------------------------
(* C33: web_client_read_file *)

\* the client is copying a file and the driver may call web_client_read_file
ReadingFile == Alive /\ w.mode = "FILECOPY" /\ web_client_has_wait_receive(w)

\* what the claim says of the call that finds read() returning r
ReadFileAsStated(c, r, c2) ==
    /\ Len(c2.response_data) <= c.response_rlen
    /\ (c.response_rlen > Len(c.response_data) /\ r > 0) =>
          /\ Len(c2.response_data) > Len(c.response_data)
          /\ web_client_has_wait_send(c2)
          /\ web_client_has_wait_receive(c2) <=> Len(c2.response_data) < c.response_rlen
          /\ ~web_client_check_dead(c2)
    /\ (c.response_rlen > Len(c.response_data) /\ r = 0) =>
          /\ ~web_client_has_wait_receive(c2)
          /\ c2.ifd = c2.ofd
          /\ ~web_client_check_dead(c2)
          /\ c2.response_data = c.response_data
    /\ (c.response_rlen > Len(c.response_data) /\ r < 0) =>
          /\ web_client_check_dead(c2)
          /\ c2.response_data = c.response_data

\* C33: in FILECOPY mode web_client_read_file never makes data.len exceed
\* rlen; a positive read arms WAIT_SEND and disarms WAIT_RECEIVE once
\* data.len >= rlen; a read of 0 bytes disarms WAIT_RECEIVE and sets
\* ifd = ofd without marking the client DEAD; a read error marks the client
\* DEAD and leaves data.len unchanged
C33_ReadFile ==
    ReadingFile =>
        \A r \in ReadChoices : ReadFileAsStated(w, r, web_client_read_file(w, r))

\* the file arrived in more than one read and the last read disarmed
\* WAIT_RECEIVE
C33_Witness ==
    /\ w.mode = "FILECOPY"
    /\ w.response_rlen > 1
    /\ Len(w.response_data) = w.response_rlen
    /\ ~web_client_has_wait_receive(w)
    /\ web_client_has_wait_send(w)
    /\ w.response_sent > 0
    /\ w.ifd # w.ofd

-----------------------------------------------------------------------------
(* C34, C35: the lazily initialised hashes under two worker threads *)

\* worker i has left the function
Finished(i) == i \in DOMAIN mt.threads /\ mt.threads[i].pc = "done"

\* the header of worker i took its effect on the worker's client
HeaderTookEffect(i) ==
    LET t == mt.threads[i]
    IN  /\ t.job.name = "Connection" => web_client_has_keepalive(t.c)
        /\ t.job.name = "Accept-Encoding" =>
                t.c.zoutput /\ web_client_flag_check(t.c, "CHUNKED_TRANSFER")
        /\ t.job.name = "Host" => t.c.server_host = t.job.value
        /\ t.job.name = "Origin" => t.c.origin = t.job.value

\* C34: when two worker threads parse headers of their own clients
\* concurrently and one of them is initialising the header-name hashes, every
\* recognised header still takes its effect on both clients, under every
\* interleaving
C34_HeadersTakeEffect ==
    \A i \in 1..Workers :
        (Finished(i) /\ mt.threads[i].job.fn = "http_header_parse") => HeaderTookEffect(i)

\* C35: web_client_process_url routes a path to the same branch under every
\* interleaving with the initialisation of the path-segment hashes on another
\* thread: /netdata.conf, /host/..., /node/... and /v0|v1|v2/... are never
\* handed to the static-file responder
C35_RoutingIsStable ==
    \A i \in 1..Workers :
        (/\ Finished(i)
         /\ mt.threads[i].job.fn = "web_client_process_url"
         /\ mt.threads[i].job.name \in {"netdata.conf", "host", "node", "v0", "v1", "v2"})
        => mt.threads[i].branch = mt.threads[i].job.name

-----------------------------------------------------------------------------
(* C36: what each verdict of the validator leaves behind *)

\* the socket is readable and the peer's next bytes are in flight
NextBytesArrive ==
    Alive /\ web_client_has_wait_receive(w) /\ w.mode # "FILECOPY" /\ net # <<>>

\* the client after web_client_receive() took the next bytes
Received == web_client_receive(w, [kind |-> "data", bytes |-> Head(net)])

\* what the claim says of the validator's result v on client c
VerdictAsStated(c, v) ==
    /\ v.v # "INCOMPLETE" =>
          /\ v.v \in {"OK", "REDIRECT", "NOT_SUPPORTED", "EXCESS_REQUEST_DATA",
                       "TOO_MANY_READ_RETRIES"}
          /\ v.w.header_parse_tries = 0
          /\ v.w.header_parse_last_size = 0
          /\ ~web_client_has_wait_receive(v.w)
    /\ v.v = "INCOMPLETE" =>
          /\ web_client_has_wait_receive(v.w)
          /\ v.w.header_parse_tries = c.header_parse_tries + 1

\* C36: every verdict of http_request_validate other than Incomplete resets
\* header_parse_tries and header_parse_last_size to 0 and disarms
\* WAIT_RECEIVE; every Incomplete verdict leaves WAIT_RECEIVE armed and
\* header_parse_tries at its incremented value; and after
\* web_client_process_request returns on Incomplete without a response the
\* mode is not STREAM
C36_VerdictsLeaveParseState ==
    /\ NextBytesArrive =>
          /\ VerdictAsStated(Received, http_request_validate(Received, conf))
          /\ \A hdr \in HeadChoices :
                LET pr == web_client_process_request(Received, conf, world, hdr, now)
                IN  (pr.verdict = "INCOMPLETE" /\ ~pr.respond) => pr.w.mode # "STREAM"
    /\ (hist.phase = "request" /\ hist.verdict = "INCOMPLETE" /\ Alive) =>
          /\ w.mode # "STREAM"
          /\ web_client_has_wait_receive(w)
          /\ w.header_parse_tries = hist.tries

\* a STREAM request whose head is incomplete was validated: the validator
\* found the method, and the mode is GET again
C36_Witness ==
    /\ hist.phase = "request"
    /\ hist.verdict = "INCOMPLETE"
    /\ StartsAt(hist.seen, 1, "STREAM ")
    /\ w.mode = "GET"
    /\ w.header_parse_tries = 1
    /\ web_client_has_wait_receive(w)

-----------------------------------------------------------------------------
(* C37: the verdict and the way the request is split across receives *)

RECURSIVE Joined(_)
\* the bytes of a sequence of segments
Joined(segments) == IF segments = <<>> THEN "" ELSE Head(segments) \o Joined(Tail(segments))

\* the byte stream of the request being received: what was read and what is
\* still in flight
RequestStream == hist.seen \o Joined(net)

\* the verdict of the validator when the bytes s arrive in one read
OneReadVerdict(s) ==
    http_request_validate(
        web_client_receive(web_client_create, [kind |-> "data", bytes |-> s]), conf).v

\* C37: the final verdict of the validator (the first other than Incomplete)
\* does not depend on how the request is split across receives, within the
\* retry bound; a request that yields Ok in one read is never answered
\* NotSupported or ExcessRequestData because it arrived in pieces
C37_VerdictIgnoresSplits ==
    (/\ hist.validations > 0
     /\ hist.verdict \notin {"INCOMPLETE", "TOO_MANY_READ_RETRIES"}
     /\ OneReadVerdict(RequestStream) # "INCOMPLETE")
    => hist.verdict = OneReadVerdict(RequestStream)

-----------------------------------------------------------------------------
(* C38: the Connection header and what the engine does after the response *)

\* C38: the response head says "Connection: keep-alive" exactly when
\* KEEPALIVE is still set after web_client_build_http_header returns, so
\* that the head agrees with what the engine does once the body is drained
C38_ConnectionHeaderAgrees ==
    (hist.phase = "response" /\ hist.head # "") =>
        (HeadHas("Connection: keep-alive") <=> hist.keepalive)

-----------------------------------------------------------------------------
(* C39: the memory a client owns *)

\* the blocks client c pointed to that were not released and that the client
\* after the operation, c2, does not point to any more
Lost(c, freed, c2) == Allocations(c) \ (freed \cup Allocations(c2))

\* C39: no memory owned by a client is lost over its lifecycle: after
\* request_done, reuse_from_cache and free each allocation held by the client
\* is still referenced by it or has been freed; web_client_reuse_from_cache
\* never drops the only reference to a live post_payload
C39_NoMemoryLost ==
    /\ Alive => Lost(w, ResetFrees(w, FALSE), web_client_request_done(w)) = {}
    /\ (~hist.released /\ web_client_check_dead(w)) =>
          /\ Lost(w, ResetFrees(w, FALSE), web_client_reuse_from_cache(w)) = {}
          /\ Allocations(w) \ ResetFrees(w, TRUE) = {}

-----------------------------------------------------------------------------
(* C40: the size a chunk header announces *)

\* the socket is writable and the response is compressed
SendingCompressed == Alive /\ web_client_has_wait_send(w) /\ w.zoutput

\* C40: in a compressed response no chunk header announcing size 0 is
\* written before the final terminator: whenever web_client_send_deflate
\* opens a new chunk the announced zhave is greater than 0, for every amount
\* of output the compressor may produce in one call
C40_NoEmptyChunk ==
    SendingCompressed =>
        \A io \in IoChoices :
            LET r == web_client_send_deflate(w, io)
            IN  r.ev.hdr # "" => (r.w.zhave > 0 /\ Ch(r.ev.hdr, 1) # "0")
====
